---- MODULE Spec2Model ----
(***************************************************************************)
(* A model of access_parser: the page store (utils.categorize_pages), the  *)
(* database facade (AccessParser) and the table reader (AccessTable).      *)
(*                                                                         *)
(* A byte buffer (the image, a page, a record) is a record                 *)
(*     [size |-> its length, mem |-> its non-zero bytes, keyed by index]   *)
(* so that a 0x1000-byte page with a handful of meaningful bytes stays     *)
(* small; every read goes through At, every Python slice through Slice.    *)
(***************************************************************************)
EXTENDS Integers, Sequences, FiniteSets, TLC

(* ---------------------------------------------------------------- bounds *)
\* pages that follow the file-header page in an image drawn by page kinds
MaxPages == 2
\* rows of the decoded catalog table
MaxCatalogRows == 2
\* record slots of the drawn data page
MaxSlots == 2
\* data pages of the table when its usage map is drawn
MaxDataPages == 3
\* the largest scale numeric_to_string is called with
MaxScale == 10
\* the links of a long-value chain that are followed before the model stops
\* following; above the number of data pages of the drawn images
MaxLinks == 4

(* ------------------------------------------------------ program constants *)
PAGE_SIZE_V3 == 2048
PAGE_SIZE_V4 == 4096
VERSION_3 == 0
VERSION_4 == 1
VERSION_5 == 2
VERSION_2010 == 3
ALL_VERSIONS == (VERSION_3 :> 3) @@ (VERSION_4 :> 4) @@ (VERSION_5 :> 5) @@ (VERSION_2010 :> 2010)
NEW_VERSIONS == {VERSION_4, VERSION_5, VERSION_2010}
\* a Flags value is written <<high word, low word>>, its value being
\* 65536 * high + low: -0x80000000, -0x00000002, 0x80000000, 0x00000002
SYSTEM_TABLE_FLAGS == {<<-32768, 0>>, <<-1, 65534>>, <<32768, 0>>, <<0, 2>>}
TABLE_PAGE_MAGIC == <<2, 1>>
DATA_PAGE_MAGIC == <<1, 1>>
\* Const(b'\00\x01\x00\x00') of ACCESSHEADER
ACCESSHEADER_MAGIC == <<0, 1, 0, 0>>
\* Padding(126) of ACCESSHEADER
ACCESSHEADER_PADDING == 126

(* ------------------------------------------------------------ byte buffers *)
Min(a, b) == IF a <= b THEN a ELSE b
Max(a, b) == IF a >= b THEN a ELSE b

EmptyMap == [x \in {} |-> 0]

\* a buffer of n bytes holding the bytes of m (m: index -> byte); zero bytes
\* and indexes past the end are dropped, so equal buffers are equal values
MkBuf(n, m) ==
    [size |-> n,
     mem  |-> [i \in {j \in DOMAIN m : j >= 0 /\ j < n /\ m[j] # 0} |-> m[i]]]

EmptyBuf == MkBuf(0, EmptyMap)

\* data[i] for 0 <= i < len(data)
At(b, i) == IF i \in DOMAIN b.mem THEN b.mem[i] ELSE 0

\* a Python slice bound: negative counts from the end, then clamped to 0..n
Bound(n, i) == IF i < 0 THEN Max(n + i, 0) ELSE Min(i, n)

\* data[lo:hi]
Slice(b, lo, hi) ==
    LET l == Bound(b.size, lo)
        h == Bound(b.size, hi)
        keep == {j \in DOMAIN b.mem : j >= l /\ j < h}
    IN  [size |-> Max(h - l, 0),
         mem  |-> [i \in {j - l : j \in keep} |-> b.mem[i + l]]]

\* data[lo:]
From(b, lo) ==
    LET l == Bound(b.size, lo)
        keep == {j \in DOMAIN b.mem : j >= l}
    IN  [size |-> b.size - l,
         mem  |-> [i \in {j - l : j \in keep} |-> b.mem[i + l]]]

\* data[::-1]
Reverse(b) ==
    [size |-> b.size,
     mem  |-> [i \in {b.size - 1 - j : j \in DOMAIN b.mem} |-> b.mem[b.size - 1 - i]]]

\* the bytes of a short buffer, as a tuple
Bytes(b) == [i \in 1..b.size |-> At(b, i - 1)]

\* a set of integers as an ascending tuple
RECURSIVE Ascending(_)
Ascending(S) ==
    IF S = {} THEN <<>>
    ELSE LET m == CHOOSE x \in S : \A y \in S : x <= y
         IN  <<m>> \o Ascending(S \ {m})

\* startswith that compares the first byte only
StartsWithFirstByte(b, magic) ==
    b.size >= 1 /\ At(b, 0) = magic[1]

\* data.startswith(magic), magic a tuple of bytes
StartsWith(b, magic) ==
    /\ b.size >= Len(magic)
    /\ \A i \in 1..Len(magic) : At(b, i - 1) = magic[i]

\* little-endian unsigned reads (the caller checks that the bytes exist)
U16(b, o) == At(b, o) + 256 * At(b, o + 1)
U32(b, o) == At(b, o) + 256 * At(b, o + 1) + 65536 * At(b, o + 2) + 16777216 * At(b, o + 3)

\* the bytes of a little-endian value laid at offset o
Put8(o, v)  == (o :> (v % 256))
Put16(o, v) == (o :> (v % 256)) @@ ((o + 1) :> ((v \div 256) % 256))
Put32(o, v) == Put16(o, v % 65536) @@ Put16(o + 2, v \div 65536)
\* the bytes of the tuple s laid at offset o
PutSeq(o, s) == [i \in {o + k - 1 : k \in 1..Len(s)} |-> s[i - o + 1]]

\* the map m moved up by d bytes
Shift(m, d) == [i \in {j + d : j \in DOMAIN m} |-> m[i - d]]

(* ------------------------------------------------- parsing_primitives.py  *)
\* index of the first NUL at or after i, or -1 when the buffer ends first
RECURSIVE FirstNul(_, _)
FirstNul(b, i) ==
    IF i >= b.size THEN -1
    ELSE IF At(b, i) = 0 THEN i
    ELSE FirstNul(b, i + 1)

\* ACCESSHEADER without its Const
ACCESSHEADER_NoConst(b) ==
    LET nul == FirstNul(b, Len(ACCESSHEADER_MAGIC))
    IN  IF /\ nul # -1
           /\ nul + 1 + 4 + ACCESSHEADER_PADDING <= b.size
        THEN [ok |-> TRUE, jet_version |-> U32(b, nul + 1)]
        ELSE [ok |-> FALSE, jet_version |-> 0]

\* ACCESSHEADER.parse: Const, CString, Int32ul, Padding(126)
ACCESSHEADER(b) ==
    LET nul == FirstNul(b, Len(ACCESSHEADER_MAGIC))
    IN  IF /\ StartsWith(b, ACCESSHEADER_MAGIC)
           /\ nul # -1
           /\ nul + 1 + 4 + ACCESSHEADER_PADDING <= b.size
        THEN [ok |-> TRUE, jet_version |-> U32(b, nul + 1)]
        ELSE [ok |-> FALSE, jet_version |-> 0]

\* parse_data_page_header: Const(01 01), data_free_space, owner,
\* ver4_unknown_dat1 (version > 3), record_count, record_offsets
parse_data_page_header(b, v) ==
    LET cnt == IF v > 3 THEN 12 ELSE 8
        rc  == U16(b, cnt)
    IN  IF /\ StartsWith(b, DATA_PAGE_MAGIC)
           /\ b.size >= cnt + 2
           /\ b.size >= cnt + 2 + 2 * rc
        THEN [ok |-> TRUE, owner |-> U32(b, 4), record_count |-> rc,
              record_offsets |-> [i \in 1..rc |-> U16(b, cnt + 2 * i)]]
        ELSE [ok |-> FALSE, owner |-> 0, record_count |-> 0, record_offsets |-> <<>>]

\* parse_buffer_custom(buffer, position, type): [ok, value]; a read past the
\* end is construct's StreamError (a ConstructError)
parse_buffer_custom(b, position, width) ==
    IF position + width <= b.size
    THEN [ok |-> TRUE,
          value |-> IF width = 1 THEN At(b, position)
                    ELSE IF width = 2 THEN U16(b, position)
                    ELSE U32(b, position)]
    ELSE [ok |-> FALSE, value |-> 0]

(* ---------------------------------------------------------------- utils.py *)
\* range(0, len(db_data), page_size)
PageOffsets(db, ps) ==
    IF db.size = 0 THEN {}
    ELSE {k * ps : k \in 0..((db.size - 1) \div ps)}

\* categorize_pages: (table_defs, data_pages, pages), each keyed by offset,
\* and whether the length warning was logged
categorize_pages(db, ps) ==
    LET pages == [i \in PageOffsets(db, ps) |-> Slice(db, i, i + ps)]
        isData == {i \in DOMAIN pages : StartsWith(pages[i], DATA_PAGE_MAGIC)}
        isTdef == {i \in DOMAIN pages : /\ i \notin isData
                                        /\ StartsWith(pages[i], TABLE_PAGE_MAGIC)}
    IN  [table_defs |-> [i \in isTdef |-> pages[i]],
         data_pages |-> [i \in isData |-> pages[i]],
         pages      |-> pages,
         warned     |-> (db.size % ps) # 0]

(* -------------------------------------------------------- access_parser.py *)
\* _parse_file_header taking every version but VERSION_3 for a new one
FileVersion_NewUnlessV3(jet_version) ==
    IF jet_version # VERSION_3
    THEN [version   |-> IF jet_version \in NEW_VERSIONS
                        THEN ALL_VERSIONS[jet_version]
                        ELSE ALL_VERSIONS[VERSION_4],
          page_size |-> PAGE_SIZE_V4,
          logged    |-> FALSE]
    ELSE [version   |-> ALL_VERSIONS[VERSION_3],
          page_size |-> PAGE_SIZE_V3,
          logged    |-> FALSE]

\* _parse_file_header, after the header parsed: version, page_size and whether
\* the unknown-version error was logged
FileVersion(jet_version) ==
    IF jet_version \in NEW_VERSIONS
    THEN [version   |-> ALL_VERSIONS[jet_version],
          page_size |-> PAGE_SIZE_V4,
          logged    |-> FALSE]
    ELSE [version   |-> ALL_VERSIONS[VERSION_3],
          page_size |-> PAGE_SIZE_V3,
          logged    |-> jet_version # VERSION_3]

\* TableObj(offset, val): val is the TDEF page at that offset; page lists hold
\* page offsets (the page bytes are all_pages[offset])
TableObj(offset) ==
    [offset |-> offset, linked_pages |-> <<>>, owned_pages |-> <<>>,
     free_space_pages |-> <<>>]

\* _link_tables_to_data: TDEF offset -> TableObj with the data pages whose
\* owner field names it, in page order; unparseable data pages are skipped
link_tables_to_data(dp, td, v, ps) ==
    LET hdr(o)  == parse_data_page_header(dp[o], v)
        good    == {o \in DOMAIN dp : hdr(o).ok /\ (hdr(o).owner * ps) \in DOMAIN td}
        owners  == {hdr(o).owner * ps : o \in good}
    IN  [t \in owners |->
            [TableObj(t) EXCEPT
                !.linked_pages = Ascending({o \in good : hdr(o).owner * ps = t})]]

\* the loop of _parse_catalog without the system-table filter
RECURSIVE catalog_mapping_NoFlags(_, _, _)
catalog_mapping_NoFlags(cat, i, acc) ==
    IF i > Len(cat.Name) THEN acc
    ELSE LET name == cat.Name[i]
             a1 == IF name = "MSysObjects"
                   THEN (name :> cat.Id[i]) @@ acc
                   ELSE acc
             a2 == IF cat.Type[i] = 1
                   THEN (name :> cat.Id[i]) @@ a1
                   ELSE a1
         IN  catalog_mapping_NoFlags(cat, i + 1, a2)

\* the loop of _parse_catalog over the rows of the decoded catalog table
RECURSIVE catalog_mapping(_, _, _)
catalog_mapping(cat, i, acc) ==
    IF i > Len(cat.Name) THEN acc
    ELSE LET name == cat.Name[i]
             a1 == IF name = "MSysObjects"
                   THEN (name :> cat.Id[i]) @@ acc
                   ELSE acc
             a2 == IF cat.Type[i] = 1 /\ cat.Flags[i] \notin SYSTEM_TABLE_FLAGS
                   THEN (name :> cat.Id[i]) @@ a1
                   ELSE a1
         IN  catalog_mapping(cat, i + 1, a2)

\* parse_table_head: the fixed fields of the TDEF page that the reader uses.
\* The version > 3 layout has five more 32-bit fields before table_type_flags.
parse_table_head(b, v) ==
    LET base == IF v > 3 THEN 40 ELSE 20
    IN  IF StartsWith(b, TABLE_PAGE_MAGIC) /\ b.size >= base + 23
        THEN [ok |-> TRUE,
              next_page_ptr |-> U32(b, 4),
              variable_columns |-> U16(b, base + 3),
              column_count |-> U16(b, base + 5),
              row_page_map_row_number |-> At(b, base + 15),
              row_page_map_page_number |->
                  At(b, base + 16) + 256 * At(b, base + 17) + 65536 * At(b, base + 18),
              free_space_page_map_row_number |-> At(b, base + 19),
              free_space_page_map_page_number |->
                  At(b, base + 20) + 256 * At(b, base + 21) + 65536 * At(b, base + 22),
              tdef_header_end |-> base + 23]
        ELSE [ok |-> FALSE, next_page_ptr |-> 0, variable_columns |-> 0,
              column_count |-> 0,
              row_page_map_row_number |-> 0, row_page_map_page_number |-> 0,
              free_space_page_map_row_number |-> 0,
              free_space_page_map_page_number |-> 0, tdef_header_end |-> 0]

\* bits taken from the most significant end of each byte
UsageBits_MsbFirst(start_page, end_page, byteCount, byte, i) ==
    LET pages == {start_page + byteCount * 8 + (7 - b) :
                     b \in {k \in 0..7 : (byte \div (2 ^ k)) % 2 = 1}}
    IN  IF i = 0 THEN Ascending(pages) ELSE <<>>

\* the inner "for i in range(8)" of _get_usage_map for one non-zero byte,
\* with its break
RECURSIVE UsageBits(_, _, _, _, _)
UsageBits(start_page, end_page, byteCount, byte, i) ==
    IF i > 7 THEN <<>>
    ELSE IF (byte \div (2 ^ i)) % 2 = 1
    THEN LET pageNumber == start_page + (byteCount * 8 + i)
         IN  IF pageNumber < start_page \/ pageNumber > end_page
             THEN <<>>
             ELSE <<pageNumber>> \o UsageBits(start_page, end_page, byteCount, byte, i + 1)
    ELSE UsageBits(start_page, end_page, byteCount, byte, i + 1)

\* the "while byteCount < filtered_buffer_size" loop over the bytes listed in idx
RECURSIVE UsageBytes(_, _, _, _)
UsageBytes(filtered, start_page, end_page, idx) ==
    IF idx = <<>> THEN <<>>
    ELSE UsageBits(start_page, end_page, Head(idx), At(filtered, Head(idx)), 0)
         \o UsageBytes(filtered, start_page, end_page, Tail(idx))

\* _get_usage_map(page_num, row_num): [exc, pages]
get_usage_map(dp, v, ps, page_num, row_num) ==
    LET OFFSET_ROW_START == IF v = 3 THEN 10 ELSE 14
        none(e) == [exc |-> e, pages |-> <<>>]
    IN  IF (page_num * ps) \notin DOMAIN dp THEN none("KeyError")
        ELSE
        LET buf       == dp[page_num * ps]
            startRead == parse_buffer_custom(buf, OFFSET_ROW_START + 2 * row_num, 2)
            endRead   == parse_buffer_custom(buf, OFFSET_ROW_START + 2 * (row_num - 1), 2)
            row_start == startRead.value % 8192
            row_end   == IF row_num = 0 THEN ps ELSE endRead.value % 8192
            table_buffer == Slice(buf, 0, row_end)
            um_start_offset == row_start + 5
            max_inline_pages == (row_end - um_start_offset) * 8
            mapType   == parse_buffer_custom(table_buffer, row_start, 1)
            startPage == parse_buffer_custom(table_buffer, row_start + 1, 4)
            start_page == startPage.value
            end_page  == start_page + max_inline_pages
            filtered  == From(table_buffer, um_start_offset)
        IN  IF ~startRead.ok THEN none("ConstructError")
            ELSE IF row_num # 0 /\ ~endRead.ok THEN none("ConstructError")
            ELSE IF ~mapType.ok \/ ~startPage.ok THEN none("ConstructError")
            ELSE [exc |-> "none",
                  pages |-> UsageBytes(filtered, start_page, end_page,
                                       Ascending(DOMAIN filtered.mem))]

\* column_dict of _get_table_columns: keyed by column_index - min(column_index),
\* or by column_id when two columns share a column_index
column_dict(cols) ==
    LET offset == CHOOSE m \in {cols[i].column_index : i \in DOMAIN cols} :
                      \A i \in DOMAIN cols : m <= cols[i].column_index
        byIndex == {cols[i].column_index - offset : i \in DOMAIN cols}
        last(K, key(_)) ==
            [k \in K |-> cols[CHOOSE i \in DOMAIN cols :
                                /\ key(cols[i]) = k
                                /\ \A j \in DOMAIN cols : key(cols[j]) = k => j <= i]]
        kIndex(c) == c.column_index - offset
        kId(c)    == c.column_id
    IN  IF Cardinality(byIndex) = Len(cols)
        THEN last(byIndex, kIndex)
        ELSE last({cols[i].column_id : i \in DOMAIN cols}, kId)

\* _get_table_columns, called by AccessTable.__init__ on the TableObj t:
\* [exc, t (with owned_pages and free_space_pages as left by the call),
\*  columns, variable_columns]. cols is the column array of the TDEF
\* (parse_table_data's column and column_names, merged). table_columns is its
\* body given the parsed table header and the two usage maps.
table_columns(t, cols, ap, ps, head, owned, free) ==
    LET offs(pgs) == [i \in DOMAIN pgs |-> pgs[i] * ps]
        known(pgs) == \A i \in DOMAIN pgs : (pgs[i] * ps) \in DOMAIN ap
        fail(e, t2) == [exc |-> e, t |-> t2, columns |-> EmptyMap, variable_columns |-> 0]
        t1 == [t EXCEPT !.owned_pages = offs(owned.pages)]
        t2 == [t1 EXCEPT !.free_space_pages = offs(free.pages)]
    IN  \* a ConstructError is caught, None is returned and unpacking it in
        \* __init__ is a TypeError; a KeyError is not caught
        IF ~head.ok THEN fail("TypeError", t)
        ELSE IF owned.exc = "KeyError" THEN fail("KeyError", t)
        ELSE IF owned.exc = "ConstructError" THEN fail("TypeError", t)
        ELSE IF ~known(owned.pages) THEN fail("KeyError", t)
        ELSE IF free.exc = "KeyError" THEN fail("KeyError", t1)
        ELSE IF free.exc = "ConstructError" THEN fail("TypeError", t1)
        ELSE IF ~known(free.pages) THEN fail("KeyError", t1)
        ELSE [exc |-> "none", t |-> t2, columns |-> column_dict(cols),
              variable_columns |-> head.variable_columns]

\* owned_pages taken from the pages linked by their owner field
usage_maps_FromLinked(t, cols, dp, ap, v, ps, head) ==
    table_columns(t, cols, ap, ps, head,
                  [exc |-> "none",
                   pages |-> [i \in DOMAIN t.linked_pages |-> t.linked_pages[i] \div ps]],
                  get_usage_map(dp, v, ps, head.free_space_page_map_page_number,
                                head.free_space_page_map_row_number))

\* the two usage maps the table header names
usage_maps(t, cols, dp, ap, v, ps, head) ==
    table_columns(t, cols, ap, ps, head,
                  get_usage_map(dp, v, ps, head.row_page_map_page_number,
                                head.row_page_map_row_number),
                  get_usage_map(dp, v, ps, head.free_space_page_map_page_number,
                                head.free_space_page_map_row_number))

get_table_columns(t, cols, td, dp, ap, v, ps) ==
    usage_maps(t, cols, dp, ap, v, ps, parse_table_head(td[t.offset], v))

\* the keys of column_dict in insertion order (the order of .items())
column_keys(cols) ==
    LET d == column_dict(cols)
        byIndex == Cardinality({cols[i].column_index : i \in DOMAIN cols}) = Len(cols)
        offset == CHOOSE m \in {cols[i].column_index : i \in DOMAIN cols} :
                      \A i \in DOMAIN cols : m <= cols[i].column_index
        key(i) == IF byIndex THEN cols[i].column_index - offset ELSE cols[i].column_id
        first == {i \in DOMAIN cols : \A j \in DOMAIN cols : key(j) = key(i) => i <= j}
        idx == Ascending(first)
    IN  [n \in DOMAIN idx |-> key(idx[n])]

(* ------------------------------------------------------------ type decoder *)
TYPE_BOOLEAN == 1
TYPE_INT8 == 2
TYPE_INT16 == 3
TYPE_INT32 == 4
TYPE_BINARY == 9
TYPE_TEXT == 10
TYPE_OLE == 11
TYPE_MEMO == 12
TEXT_COMPRESSION_HEADER == <<255, 254>>

\* decoded values, tagged so that values of different kinds compare
VNone      == [t |-> "None"]
VBool(x)   == [t |-> "bool", v |-> x]
VInt(x)    == [t |-> "int", v |-> x]
VStr(x)    == [t |-> "str", v |-> x]
VBytes(x)  == [t |-> "bytes", v |-> x]

Signed(x, bits) == IF x >= 2 ^ (bits - 1) THEN x - 2 ^ bits ELSE x

\* bytes.decode("utf-16-le", errors="replace") as code units; a trailing odd
\* byte gives U+FFFD (surrogates do not occur in the drawn inputs)
Utf16(bs) ==
    LET n == Len(bs) \div 2
    IN  [i \in 1..(n + (Len(bs) % 2)) |->
            IF i <= n THEN bs[2 * i - 1] + 256 * bs[2 * i] ELSE 65533]

\* decodeUncompressedText(textBytes, dataStart, dataEnd, version): cp1252 for
\* version 3 (the identity on the drawn bytes, all below 0x80 or from 0xA0
\* up), else utf-16-le
decodeUncompressedText(bs, dataStart, dataEnd, v) ==
    LET part == SubSeq(bs, dataStart + 1, Min(dataEnd, Len(bs)))
    IN  IF v = 3 THEN part ELSE Utf16(part)

\* every segment expanded, whatever the mode
decodeTextSegment_AlwaysCompressed(bs, dataStart, dataEnd, inCompressedMode, v) ==
    IF dataEnd <= dataStart THEN <<>>
    ELSE LET segment  == SubSeq(bs, dataStart + 1, dataEnd)
             expanded == [i \in 1..(2 * Len(segment)) |->
                             IF i % 2 = 1 THEN segment[(i + 1) \div 2] ELSE 0]
         IN  decodeUncompressedText(expanded, 0, Len(expanded), v)

\* decodeTextSegment
decodeTextSegment(bs, dataStart, dataEnd, inCompressedMode, v) ==
    IF dataEnd <= dataStart THEN <<>>
    ELSE IF inCompressedMode
    THEN LET segment  == SubSeq(bs, dataStart + 1, dataEnd)
             expanded == [i \in 1..(2 * Len(segment)) |->
                             IF i % 2 = 1 THEN segment[(i + 1) \div 2] ELSE 0]
         IN  decodeUncompressedText(expanded, 0, Len(expanded), v)
    ELSE decodeUncompressedText(bs, dataStart, dataEnd, v)

\* the segment loop of decodeTextValue
RECURSIVE decodeSegments(_, _, _, _, _)
decodeSegments(bs, dataStart, dataEnd, inCompressedMode, v) ==
    IF dataEnd >= Len(bs)
    THEN decodeTextSegment(bs, dataStart, dataEnd, inCompressedMode, v)
    ELSE IF bs[dataEnd + 1] = 0
    THEN decodeTextSegment(bs, dataStart, dataEnd, inCompressedMode, v)
         \o decodeSegments(bs, dataEnd + 1, dataEnd + 1, ~inCompressedMode, v)
    ELSE decodeSegments(bs, dataStart, dataEnd + 1, inCompressedMode, v)

\* decodeTextValue(data, version)
decodeTextValue(bs, v) ==
    IF v = 3 THEN decodeUncompressedText(bs, 0, Len(bs), v)
    ELSE IF Len(bs) > 1 /\ SubSeq(bs, 1, 2) = TEXT_COMPRESSION_HEADER
    THEN decodeSegments(bs, 2, 2, TRUE, v)
    ELSE decodeUncompressedText(bs, 0, Len(bs), v)

\* parse_type(data_type, buffer, length, version): [ok, val]; ok is FALSE when
\* struct.unpack_from raises struct.error on a buffer that is too short.
\* length = -1 stands for None. Only the type codes drawn in the schemas are
\* decoded; the others that need no float or date arithmetic fall to "".
parse_type(data_type, buffer, length, v) ==
    LET need(n) == buffer.size >= n
        yes(x)  == [ok |-> TRUE, val |-> x]
        no      == [ok |-> FALSE, val |-> VNone]
    IN  IF data_type = TYPE_INT8
        THEN IF need(1) THEN yes(VInt(Signed(At(buffer, 0), 8))) ELSE no
        ELSE IF data_type = TYPE_INT16
        THEN IF need(2) THEN yes(VInt(Signed(U16(buffer, 0), 16))) ELSE no
        ELSE IF data_type = TYPE_INT32
        THEN IF need(4) THEN yes(VInt(Signed(U32(buffer, 0), 32))) ELSE no
        ELSE IF data_type = TYPE_BINARY
        THEN yes(VBytes(Bytes(IF length = -1 THEN buffer ELSE Slice(buffer, 0, length))))
        ELSE IF data_type = TYPE_OLE
        THEN yes(VBytes(Bytes(buffer)))
        ELSE IF data_type = TYPE_TEXT
        THEN yes(VStr(decodeTextValue(Bytes(buffer), v)))
        ELSE yes(VStr(<<>>))

(* ------------------------------------------------------- numeric_to_string *)
\* str(n) of a non-negative int below 2^31 without its leading zero: the
\* decimal digits as character codes, none for 0
RECURSIVE DecimalDigits(_)
DecimalDigits(n) ==
    IF n = 0 THEN <<>> ELSE Append(DecimalDigits(n \div 10), 48 + (n % 10))

\* the decimal digits of d * m + a, d being decimal digits
RECURSIVE TimesPlus(_, _, _)
TimesPlus(d, m, a) ==
    IF d = <<>> THEN DecimalDigits(a)
    ELSE LET x == (d[Len(d)] - 48) * m + a
         IN  Append(TimesPlus(SubSeq(d, 1, Len(d) - 1), m, x \div 10), 48 + (x % 10))

\* str((num1 << 96) + (num2 << 64) + (num3 << 32) + num4): the 16-bit halves
\* of the four unpacked limbs, the high half of num1 first, summed by Horner's rule
RECURSIVE HornerDigits(_, _)
HornerDigits(d, halves) ==
    IF halves = <<>> THEN d
    ELSE HornerDigits(TimesPlus(d, 65536, Head(halves)), Tail(halves))

\* the ("<BIIII") limbs of bytes_num as 16-bit halves, most significant first
LimbHalves(bytes_num) ==
    [i \in 1..8 |-> IF i % 2 = 1 THEN U16(bytes_num, 4 * ((i + 1) \div 2) - 1)
                     ELSE U16(bytes_num, 4 * (i \div 2) - 3)]

\* s[-n:]
LastChars(s, n) == IF n = 0 \/ n >= Len(s) THEN s ELSE SubSeq(s, Len(s) - n + 1, Len(s))

\* the string without the zero padding of the short numbers
numeric_to_string_NoPad(bytes_num, scale) ==
    LET digits == HornerDigits(<<>>, LimbHalves(bytes_num))
        full_number == IF digits = <<>> THEN <<48>> ELSE digits
        dot_len == Len(full_number) - scale
        dotted == IF Len(full_number) > scale
                  THEN SubSeq(full_number, 1, dot_len) \o <<46>>
                       \o SubSeq(full_number, dot_len + 1, Len(full_number))
                  ELSE full_number
    IN  IF bytes_num.size # 17 THEN [ok |-> FALSE, val |-> <<>>]
        ELSE [ok |-> TRUE,
              val |-> (IF At(bytes_num, 0) # 0 THEN <<45>> ELSE <<>>) \o dotted]

\* numeric_to_string(bytes_num, scale): [ok, val]; val is the string as
\* character codes, ok is FALSE when struct.unpack raises struct.error
numeric_to_string(bytes_num, scale) ==
    LET digits == HornerDigits(<<>>, LimbHalves(bytes_num))
        full_number == IF digits = <<>> THEN <<48>> ELSE digits
        dot_len == Len(full_number) - scale
        dotted == IF Len(full_number) > scale
                  THEN SubSeq(full_number, 1, dot_len) \o <<46>>
                       \o SubSeq(full_number, dot_len + 1, Len(full_number))
                  ELSE full_number
        padded == IF Len(dotted) <= scale
                  THEN <<48, 46>> \o LastChars([i \in 1..scale |-> 48] \o dotted, scale)
                  ELSE dotted
    IN  IF bytes_num.size # 17 THEN [ok |-> FALSE, val |-> <<>>]
        ELSE [ok |-> TRUE,
              val |-> (IF At(bytes_num, 0) # 0 THEN <<45>> ELSE <<>>) \o padded]

(* -------------------------------------------------------------- row reader *)
\* self.parsed_table[name] of the defaultdict(list)
Column(pt, name) == IF name \in DOMAIN pt THEN pt[name] ELSE <<>>

\* self.parsed_table[name].append(val)
Appended(pt, name, val) ==
    [n \in DOMAIN pt \cup {name} |->
        IF n = name THEN Append(Column(pt, name), val) ELSE pt[n]]

\* the bits of each bitmap byte taken from the most significant end
NullTable_MsbFirst(bitmap) ==
    [i \in 1..(8 * bitmap.size) |->
        (At(bitmap, (i - 1) \div 8) \div (2 ^ (7 - ((i - 1) % 8)))) % 2 = 1]

\* [bit i of the bitmap bytes, LSB first], as the list built in _parse_row
NullTable(bitmap) ==
    [i \in 1..(8 * bitmap.size) |->
        (At(bitmap, (i - 1) \div 8) \div (2 ^ ((i - 1) % 8))) % 2 = 1]

\* _parse_fixed_length_data(record, column, null_table): [pt, exc]
parse_fixed_length_data(record, column, null_table, pt, v) ==
    LET name   == column.col_name_str
        beyond == column.column_id > Len(null_table)
        parsed == parse_type(column.type, From(record, column.fixed_offset), -1, v)
    IN  IF ~beyond /\ column.column_id >= Len(null_table)
        THEN [pt |-> pt, exc |-> "IndexError"]
        ELSE
        LET has_value == IF beyond THEN FALSE ELSE null_table[column.column_id + 1]
        IN  IF column.type = TYPE_BOOLEAN
            THEN [pt  |-> Appended(pt, name, IF beyond THEN VNone ELSE VBool(has_value)),
                  exc |-> "none"]
            ELSE IF column.fixed_offset > record.size
            THEN [pt |-> pt, exc |-> "none"]
            ELSE IF ~parsed.ok
            THEN [pt |-> pt, exc |-> "struct.error"]
            ELSE [pt  |-> Appended(pt, name, IF has_value THEN parsed.val ELSE VNone),
                  exc |-> "none"]

\* parse_relative_object_metadata_struct(buffer, variable_jump_tables_cnt,
\* version) on the reversed record: [ok, ...]; ok is FALSE on a ConstructError
parse_relative_object_metadata_struct(rev, jump_cnt, v) ==
    LET count  == IF v = 3 THEN At(rev, 0) ELSE 256 * At(rev, 0) + At(rev, 1)
        n      == IF v = 3 THEN count ELSE count % 256
        offs0  == IF v = 3 THEN 1 + jump_cnt ELSE 2
        width  == IF v = 3 THEN 1 ELSE 2
        rd(o)  == IF v = 3 THEN At(rev, o) ELSE 256 * At(rev, o) + At(rev, o + 1)
        end    == offs0 + width * n + width
    IN  IF rev.size >= end
        THEN [ok |-> TRUE,
              variable_length_field_count |-> count,
              variable_length_jump_table  |->
                  IF v = 3 THEN [i \in 1..jump_cnt |-> At(rev, i)] ELSE <<>>,
              variable_length_field_offsets |->
                  [i \in 1..n |-> rd(offs0 + width * (i - 1))],
              var_len_count |-> rd(offs0 + width * n),
              relative_metadata_end |-> end]
        ELSE [ok |-> FALSE,
              variable_length_field_count |-> 0,
              variable_length_jump_table |-> <<>>,
              variable_length_field_offsets |-> <<>>,
              var_len_count |-> 0,
              relative_metadata_end |-> 0]

\* bytes.find(bytes([x])): the first index holding x, or -1
RECURSIVE Find(_, _, _)
Find(b, x, i) ==
    IF i >= b.size THEN -1
    ELSE IF At(b, i) = x THEN i
    ELSE Find(b, x, i + 1)

\* the count validated in every version
parse_dynamic_length_records_metadata_AllVersions(reverse_record, original_record, null_table_length, variable_columns, v) ==
    LET rev     == From(reverse_record, null_table_length)
        jumpCnt == (original_record.size - 1) \div 256
        first   == parse_relative_object_metadata_struct(rev, jumpCnt, v)
        metadata_start == Find(Slice(rev, 0, 10), variable_columns, 0)
        second  == parse_relative_object_metadata_struct(From(rev, metadata_start), jumpCnt, v)
    IN  IF ~first.ok THEN [kind |-> "None", md |-> first]
        ELSE IF first.variable_length_field_count = variable_columns
        THEN [kind |-> "ok", md |-> first]
        ELSE IF metadata_start # -1
        THEN [kind |-> "ok", md |-> IF second.ok THEN second ELSE first]
        ELSE [kind |-> "None", md |-> first]

\* _parse_dynamic_length_records_metadata: [kind, md]; kind is "ok" (md is the
\* metadata), "None" (nothing returned) or "ConstructError" (raised)
parse_dynamic_length_records_metadata(reverse_record, original_record, null_table_length, variable_columns, v) ==
    LET rev     == From(reverse_record, null_table_length)
        jumpCnt == (original_record.size - 1) \div 256
        first   == parse_relative_object_metadata_struct(rev, jumpCnt, v)
        \* find() is cut at 10: a first hit at 10 or later is rejected
        metadata_start == Find(Slice(rev, 0, 10), variable_columns, 0)
        second  == parse_relative_object_metadata_struct(From(rev, metadata_start), jumpCnt, v)
        moved(md, d) == [md EXCEPT !.relative_metadata_end = @ + d]
        first3  == moved(first, null_table_length)
    IN  IF v > 3
        THEN IF first.ok THEN [kind |-> "ok", md |-> first]
             ELSE [kind |-> "ConstructError", md |-> first]
        ELSE IF ~first.ok THEN [kind |-> "None", md |-> first]
        ELSE IF first.variable_length_field_count = variable_columns
        THEN [kind |-> "ok", md |-> first3]
        ELSE IF metadata_start # -1
        THEN [kind |-> "ok",
              md |-> moved(IF second.ok THEN second ELSE first3, metadata_start)]
        ELSE [kind |-> "None", md |-> first]

\* the loop of _parse_dynamic_length_data over the variable columns listed in
\* keys (ascending key order): [pt, exc]
RECURSIVE parse_dynamic_length_data(_, _, _, _, _, _, _, _)
parse_dynamic_length_data(original_record, md, columns, keys, null_table, jump_table_addition, pt, v) ==
    IF keys = <<>> THEN [pt |-> pt, exc |-> "none"]
    ELSE
    LET column   == columns[Head(keys)]
        col_name == column.col_name_str
        rest(pt2, jump) ==
            parse_dynamic_length_data(original_record, md, columns, Tail(keys),
                                      null_table, jump, pt2, v)
        relative_offsets == md.variable_length_field_offsets
        n      == column.variable_column_number
        beyond == column.column_id > Len(null_table)
    IN  IF ~beyond /\ column.column_id >= Len(null_table)
        THEN [pt |-> pt, exc |-> "IndexError"]
        ELSE IF beyond \/ ~null_table[column.column_id + 1]
        THEN rest(Appended(pt, col_name, VNone), jump_table_addition)
        ELSE
        LET inJump == \E k \in DOMAIN md.variable_length_jump_table :
                          md.variable_length_jump_table[k] = n
            jump   == IF v = 3 /\ inJump
                      THEN jump_table_addition + 256
                      ELSE jump_table_addition
        IN  IF n >= Len(relative_offsets)
            THEN [pt |-> pt, exc |-> "IndexError"]
            ELSE
            LET rel_start == relative_offsets[n + 1]
                rel_end   == IF n + 1 = Len(relative_offsets)
                             THEN md.var_len_count
                             ELSE relative_offsets[n + 2]
                relative_obj_data == Slice(original_record, rel_start + jump, rel_end + jump)
                parsed == parse_type(column.type, relative_obj_data,
                                     relative_obj_data.size, v)
            IN  IF rel_start = rel_end
                THEN rest(Appended(pt, col_name, VStr(<<>>)), jump)
                ELSE IF ~parsed.ok
                THEN [pt |-> pt, exc |-> "struct.error"]
                ELSE rest(Appended(pt, col_name, parsed.val), jump)

\* the loop of _parse_row over the columns in keys (dict order): the fixed
\* columns are parsed, the others left for the second pass: [pt, exc]
RECURSIVE parse_fixed_columns(_, _, _, _, _, _)
parse_fixed_columns(record, columns, keys, null_table, pt, v) ==
    IF keys = <<>> THEN [pt |-> pt, exc |-> "none"]
    ELSE IF ~columns[Head(keys)].fixed_length
    THEN parse_fixed_columns(record, columns, Tail(keys), null_table, pt, v)
    ELSE LET r == parse_fixed_length_data(record, columns[Head(keys)], null_table, pt, v)
         IN  IF r.exc # "none" THEN r
             ELSE parse_fixed_columns(record, columns, Tail(keys), null_table, r.pt, v)

\* the null-bitmap test with its comparison turned round
null_table_fits_Flipped(null_table_len, original_record) ==
    null_table_len # 0 /\ null_table_len > original_record.size

\* "null_table_len and null_table_len < len(original_record)" of _parse_row
null_table_fits(null_table_len, original_record) ==
    null_table_len # 0 /\ null_table_len < original_record.size

\* _parse_row(record) on a table handle h = [columns, keys, variable_columns,
\* version]: [pt, exc, rows]; rows is 1 when the record passed the null-bitmap
\* check and went on to have its columns parsed, 0 when it was dropped before
parse_row(original_record, h, pt) ==
    LET v       == h.version
        cntLen  == IF v > 3 THEN 2 ELSE 1
        field_count == IF v > 3 THEN Signed(U16(original_record, 0), 16)
                       ELSE Signed(At(original_record, 0), 8)
        record  == From(original_record, cntLen)
        null_table_len == (field_count + 7) \div 8
        null_table == NullTable(From(record, 0 - null_table_len))
        relative == {k \in DOMAIN h.columns : ~h.columns[k].fixed_length}
        fixed   == parse_fixed_columns(record, h.columns, h.keys, null_table, pt, v)
        meta    == parse_dynamic_length_records_metadata(
                       Reverse(original_record), original_record,
                       null_table_len, h.variable_columns, v)
        dyn     == parse_dynamic_length_data(original_record, meta.md, h.columns,
                                             Ascending(relative), null_table, 0,
                                             fixed.pt, v)
    IN  IF original_record.size < cntLen
        THEN [pt |-> pt, exc |-> "struct.error", rows |-> 0]
        ELSE IF ~null_table_fits(null_table_len, original_record)
        THEN [pt |-> pt, exc |-> "none", rows |-> 0]
        ELSE IF fixed.exc # "none"
        THEN [pt |-> fixed.pt, exc |-> fixed.exc, rows |-> 1]
        ELSE IF relative = {}
        THEN [pt |-> fixed.pt, exc |-> "none", rows |-> 1]
        ELSE IF meta.kind = "ConstructError"
        THEN [pt |-> fixed.pt, exc |-> "ConstructError", rows |-> 1]
        ELSE IF meta.kind = "None" \/ meta.md.variable_length_field_offsets = <<>>
        THEN [pt |-> fixed.pt, exc |-> "none", rows |-> 1]
        ELSE [pt |-> dyn.pt, exc |-> dyn.exc, rows |-> 1]

\* the record taken from the slot's offset with its flag bits left on
get_overflow_record_NoMask(record_pointer, dp, v, ps) ==
    LET record_offset == record_pointer % 256
        page_num      == record_pointer \div 256
        none(k)       == [kind |-> k, record |-> EmptyBuf]
    IN  IF (page_num * ps) \notin DOMAIN dp THEN none("None")
        ELSE
        LET record_page == dp[page_num * ps]
            parsed_data == parse_data_page_header(record_page, v)
            offs        == parsed_data.record_offsets
        IN  IF ~parsed_data.ok THEN none("ConstructError")
            ELSE IF record_offset > Len(offs) THEN none("None")
            ELSE IF record_offset >= Len(offs) THEN none("IndexError")
            ELSE [kind |-> "record",
                  record |-> IF record_offset = 0
                             THEN From(record_page, offs[record_offset + 1])
                             ELSE Slice(record_page, offs[record_offset + 1],
                                        offs[record_offset])]

\* _get_overflow_record(record_pointer): [kind, record]; kind is "record",
\* "None" (nothing returned) or the exception raised
get_overflow_record(record_pointer, dp, v, ps) ==
    LET record_offset == record_pointer % 256
        page_num      == record_pointer \div 256
        none(k)       == [kind |-> k, record |-> EmptyBuf]
    IN  IF (page_num * ps) \notin DOMAIN dp THEN none("None")
        ELSE
        LET record_page == dp[page_num * ps]
            parsed_data == parse_data_page_header(record_page, v)
            offs        == parsed_data.record_offsets
        IN  IF ~parsed_data.ok THEN none("ConstructError")
            ELSE IF record_offset > Len(offs) THEN none("None")
            ELSE IF record_offset >= Len(offs) THEN none("IndexError")
            ELSE
            LET raw   == offs[record_offset + 1]
                start == IF (raw \div 32768) % 2 = 1 THEN raw % 4096 ELSE raw
                rawEnd == offs[record_offset]
                end   == IF (rawEnd \div 32768) % 2 = 1 THEN rawEnd % 4096 ELSE rawEnd
            IN  [kind |-> "record",
                 record |-> IF record_offset = 0
                            THEN From(record_page, start)
                            ELSE Slice(record_page, start, end)]

(* ------------------------------------------------------------ long values  *)
\* MEMO.parse(relative_obj_data): [ok, top, inline_memo_length,
\* record_pointer, memo_end]; ok is FALSE on a ConstructError (fewer than 12
\* bytes). top is the high byte of memo_length, which holds the bits
\* 0x80000000 and 0x40000000; inline_memo_length is memo_length & 0x3FFFFFFF
MEMO(b) ==
    [ok |-> b.size >= 12,
     top |-> At(b, 3),
     inline_memo_length |-> At(b, 0) + 256 * At(b, 1) + 65536 * At(b, 2)
                            + 16777216 * (At(b, 3) % 64),
     record_pointer |-> U32(b, 4),
     memo_end |-> 12]

\* the bit 0x40000000 tested before the bit 0x80000000
memo_kind_Lval1First(top) ==
    IF (top \div 64) % 2 = 1 THEN "lval1"
    ELSE IF top >= 128 THEN "inline"
    ELSE "lval2"

\* the branch of _parse_memo that the high bits of memo_length select
memo_kind(top) ==
    IF top >= 128 THEN "inline"
    ELSE IF (top \div 64) % 2 = 1 THEN "lval1"
    ELSE "lval2"

\* the bytes as a buffer
BufOf(bs) == MkBuf(Len(bs), PutSeq(0, bs))

\* the end of _parse_memo: "if memo_data:" and the decoding; data is the
\* bytes of memo_data, none for None and for b""
memo_value(data, return_raw, v) ==
    IF data = <<>> THEN VNone
    ELSE IF return_raw THEN VBytes(data)
    ELSE parse_type(TYPE_TEXT, BufOf(data), Len(data), v).val

\* struct.unpack("I", rec_data[:4])[0] on what _get_overflow_record gave:
\* [exc, next_page, rec_data]; None[:4] is a TypeError, fewer than 4 bytes a
\* struct.error
unpack_next(g) ==
    [exc |-> IF g.kind = "None" THEN "TypeError"
             ELSE IF g.kind # "record" THEN g.kind
             ELSE IF g.record.size < 4 THEN "struct.error"
             ELSE "none",
     next_page |-> U32(g.record, 0),
     rec_data |-> g.record]

\* a call of _parse_memo: where it stands, its argument, the branch taken,
\* the locals of the LVAL type 2 loop, the links followed, the value returned
\* and the exception raised
Memo(state, rel, raw, kind, rec_data, next_page, data, links, val, e) ==
    [state |-> state, relative_obj_data |-> rel, return_raw |-> raw, kind |-> kind,
     rec_data |-> rec_data, next_page |-> next_page, memo_data |-> data,
     links |-> links, val |-> val, exc |-> e]

\* _parse_memo(relative_obj_data, return_raw) up to its while loop, m being
\* the pending call
parse_memo(m, dp, v, ps) ==
    LET rel    == m.relative_obj_data
        parsed_memo == MEMO(rel)
        kind   == memo_kind(parsed_memo.top)
        done(k, data) ==
            Memo("returned", rel, m.return_raw, k, EmptyBuf, 0, data, 0,
                 memo_value(data, m.return_raw, v), "none")
        raised(k, e) ==
            Memo("raised", rel, m.return_raw, k, EmptyBuf, 0, <<>>, 0, VNone, e)
        got    == get_overflow_record(parsed_memo.record_pointer, dp, v, ps)
        first  == unpack_next(got)
    IN  IF ~parsed_memo.ok THEN raised("none", "ConstructError")
        ELSE IF kind = "inline"
        THEN done(kind,
                  Bytes(IF rel.size < parsed_memo.memo_end + parsed_memo.inline_memo_length
                        THEN From(rel, parsed_memo.memo_end)
                        ELSE Slice(rel, parsed_memo.memo_end,
                                   parsed_memo.memo_end + parsed_memo.inline_memo_length)))
        ELSE IF kind = "lval1"
        THEN IF got.kind \notin {"record", "None"} THEN raised(kind, got.kind)
             ELSE done(kind, Bytes(got.record))
        ELSE IF first.exc # "none" THEN raised(kind, first.exc)
        ELSE Memo("chain", rel, m.return_raw, kind, first.rec_data, first.next_page,
                  <<>>, 0, VNone, "none")

\* one turn of "while next_page:"
memo_link(m, dp, v, ps) ==
    LET data == m.memo_data \o Bytes(From(m.rec_data, 4))
        next == unpack_next(get_overflow_record(m.next_page, dp, v, ps))
    IN  IF next.exc # "none"
        THEN [m EXCEPT !.state = "raised", !.memo_data = data,
                       !.links = @ + 1, !.exc = next.exc]
        ELSE [m EXCEPT !.rec_data = next.rec_data, !.next_page = next.next_page,
                       !.memo_data = data, !.links = @ + 1]

\* the end of _parse_memo after the loop
memo_done(m, v) ==
    LET data == m.memo_data \o Bytes(From(m.rec_data, 4))
    IN  [m EXCEPT !.state = "returned", !.memo_data = data,
                  !.val = memo_value(data, m.return_raw, v)]

(* ------------------------------------------------------------ drawn images *)
\* The images are laid out as Access lays them out: page 0 the file header,
\* page 1 a data page holding the usage maps, page 2 a TDEF page, the data
\* pages after it. What varies is drawn in Init.
Le16(x) == <<x % 256, (x \div 256) % 256>>
Le32(x) == Le16(x % 65536) \o Le16(x \div 65536)
Rev(s)  == [i \in 1..Len(s) |-> s[Len(s) + 1 - i]]
RECURSIVE Flat(_)
Flat(ss) == IF ss = <<>> THEN <<>> ELSE Head(ss) \o Flat(Tail(ss))

PageSizeOf(v) == IF v = 3 THEN PAGE_SIZE_V3 ELSE PAGE_SIZE_V4
JetVersionOf(v) == IF v = 3 THEN VERSION_3 ELSE VERSION_4

\* "Standard Jet DB"
JetString == <<83, 116, 97, 110, 100, 97, 114, 100, 32, 74, 101, 116, 32, 68, 66>>

\* the bytes of a file-header page: magic, jet_string, NUL, jet_version
HeaderBytes(jet_version) ==
    PutSeq(0, ACCESSHEADER_MAGIC) @@ PutSeq(4, JetString) @@ Put32(20, jet_version)

\* a record: field count, fixed region, variable region, then (in file order)
\* var_len_count, the offsets last to first, the jump table last to first, the
\* variable field count, and the null bitmap
RecordBytes(v, field_count, fixed, var, var_len_count, offs, jump, count, bitmap) ==
    IF v = 3
    THEN <<field_count % 256>> \o fixed \o var \o <<var_len_count>> \o Rev(offs)
         \o Rev(jump) \o <<count>> \o bitmap
    ELSE Le16(field_count) \o fixed \o var \o Le16(var_len_count)
         \o Flat([i \in 1..Len(offs) |-> Le16(Rev(offs)[i])])
         \o Le16(count) \o bitmap

\* the bytes of a data page: header, slot table, and the slot bodies laid
\* from the end of the page downwards. A slot is [flag, body, at]: the flag
\* bits of its offset, its bytes, and its offset (-1: right below the
\* bytes of the slots laid so far; a slot with an offset of its own leaves
\* that running top where it is).
RECURSIVE SlotOffsets(_, _)
SlotOffsets(slots, top) ==
    IF slots = <<>> THEN <<>>
    ELSE IF Head(slots).at = -1
    THEN <<top - Len(Head(slots).body)>>
         \o SlotOffsets(Tail(slots), top - Len(Head(slots).body))
    ELSE <<Head(slots).at>> \o SlotOffsets(Tail(slots), top)

DataPageBytes(v, owner, slots) ==
    LET ps   == PageSizeOf(v)
        cnt  == IF v > 3 THEN 12 ELSE 8
        offs == SlotOffsets(slots, ps)
        table(i) == Put16(cnt + 2 * i, offs[i] + slots[i].flag)
        body(i)  == PutSeq(offs[i], slots[i].body)
        RECURSIVE all(_)
        all(i) == IF i = 0 THEN EmptyMap ELSE all(i - 1) @@ table(i) @@ body(i)
    IN  PutSeq(0, DATA_PAGE_MAGIC) @@ Put32(4, owner) @@ Put16(cnt, Len(slots))
        @@ all(Len(slots))

\* a usage map: map_type 0, start_page, one bitmap byte per eight pages
UsageMapBody(start_page, pages) ==
    LET byte(k) == IF pages = {} THEN 0
                   ELSE LET S == {p \in pages : (p - start_page) \div 8 = k}
                            RECURSIVE sum(_)
                            sum(T) == IF T = {} THEN 0
                                      ELSE LET p == CHOOSE x \in T : TRUE
                                           IN  2 ^ ((p - start_page) % 8) + sum(T \ {p})
                        IN  sum(S)
    IN  <<0>> \o Le32(start_page) \o <<byte(0), byte(1)>>

\* the bytes of a TDEF page whose owned-pages and free-space usage maps are
\* the rows ownedRow and freeRow of page mapPage
TdefBytes(v, variable_columns, column_count, mapPage, ownedRow, freeRow) ==
    LET base == IF v > 3 THEN 40 ELSE 20
    IN  PutSeq(0, TABLE_PAGE_MAGIC) @@ Put16(base + 3, variable_columns)
        @@ Put16(base + 5, column_count)
        @@ Put8(base + 15, ownedRow) @@ Put8(base + 16, mapPage)
        @@ Put8(base + 19, freeRow) @@ Put8(base + 20, mapPage)

\* an image of whole pages (pages[k] are the bytes of page k - 1) followed by
\* a fragment of tailLen bytes holding tail
ImageOf(v, pages, tailLen, tail) ==
    LET ps == PageSizeOf(v)
        RECURSIVE all(_)
        all(i) == IF i = 0 THEN EmptyMap
                  ELSE all(i - 1) @@ Shift(pages[i], (i - 1) * ps)
    IN  MkBuf(Len(pages) * ps + tailLen,
              all(Len(pages)) @@ Shift(tail, Len(pages) * ps))

(* --------------------------------------------------------------- the table *)
\* The column array of the drawn table's TDEF, in TDEF order (which is not
\* column_index order): C INT16 at 2, A INT8 at 0, B TEXT (variable), F BOOLEAN
Col(name, type, id, vcn, index, fixed, offset) ==
    [col_name_str |-> name, type |-> type, column_id |-> id,
     variable_column_number |-> vcn, column_index |-> index,
     fixed_length |-> fixed, fixed_offset |-> offset]

TableColumns ==
    << Col("C", TYPE_INT16,   2, 0, 2, TRUE,  2),
       Col("A", TYPE_INT8,    0, 0, 0, TRUE,  0),
       Col("B", TYPE_TEXT,    1, 0, 1, FALSE, 0),
       Col("F", TYPE_BOOLEAN, 3, 0, 3, TRUE,  0) >>

\* the page numbers of the drawn layout: the data page that holds the usage
\* maps, the TDEF page of the catalog (2 * page_size in _parse_catalog), the
\* TDEF page of the user table T, its first data page, and a page number that
\* no image has
Layout == [usage |-> 1, catalog |-> 2, tdef |-> 3, data |-> 4, absent |-> 9]

\* "hi" as stored in a text column
HiText(v) == IF v = 3 THEN <<104, 105>> ELSE <<104, 0, 105, 0>>

\* a text value that starts with the compression header FF FE: "Hi" as one
\* compressed segment, and the UTF-16LE bytes of "Hi" behind the header
PackedHi == TEXT_COMPRESSION_HEADER \o <<72, 105>>
BomHi == TEXT_COMPRESSION_HEADER \o <<72, 0, 105, 0>>

\* a well-formed record of the table: A = a, C = c, the bytes of B, null
\* bitmap given
TextRecord(v, a, c, text, bitmap) ==
    LET start == (IF v = 3 THEN 1 ELSE 2) + 4
    IN  RecordBytes(v, 4, <<a, 0, c, 0>>, text, start + Len(text),
                    <<start>>, <<>>, 1, <<bitmap>>)

\* the record with B = "hi"
GoodRecord(v, a, c, bitmap) == TextRecord(v, a, c, HiText(v), bitmap)

\* the same record with a trailer that announces no variable field
BadTrailerRecord(v, a, c) ==
    LET start == (IF v = 3 THEN 1 ELSE 2) + 4
    IN  RecordBytes(v, 4, <<a, 0, c, 0>>, HiText(v), start + Len(HiText(v)),
                    <<>>, <<>>, 0, <<15>>)

Slot(flag, body, at) == [flag |-> flag, body |-> body, at |-> at]

SlotKinds ==
    {"good", "nullB", "badtrailer", "short", "tiny", "empty",
     "deleted", "deleted0", "overflow", "overflow1", "pastcount", "beyond",
     "dangling", "cutpointer", "packed", "bom"}

\* the slot of each kind; an overflow slot points at a slot of page ovfPage,
\* which holds two records
SlotOf(v, kind, ovfPage) ==
    CASE kind = "good"       -> Slot(0, GoodRecord(v, 5, 7, 15), -1)
      [] kind = "nullB"      -> Slot(0, GoodRecord(v, 6, 7, 13), -1)
      [] kind = "badtrailer" -> Slot(0, BadTrailerRecord(v, 5, 7), -1)
      \* one byte: too short for the field count of version > 3
      [] kind = "short"      -> Slot(0, <<4>>, -1)
      \* the field count and the null bitmap, nothing else
      [] kind = "tiny"       -> Slot(0, (IF v = 3 THEN <<4>> ELSE <<4, 0>>) \o <<15>>, -1)
      \* no byte at all
      [] kind = "empty"      -> Slot(0, <<>>, -1)
      [] kind = "deleted"    -> Slot(32768, GoodRecord(v, 8, 7, 15), -1)
      \* a deleted slot whose offset bits are all 0
      [] kind = "deleted0"   -> Slot(32768, <<>>, 0)
      [] kind = "overflow"   -> Slot(16384, Le32(256 * ovfPage), -1)
      [] kind = "overflow1"  -> Slot(16384, Le32(256 * ovfPage + 1), -1)
      \* a pointer at the slot index that equals the record count
      [] kind = "pastcount"  -> Slot(16384, Le32(256 * ovfPage + 2), -1)
      \* a pointer at a slot index above the record count
      [] kind = "beyond"     -> Slot(16384, Le32(256 * ovfPage + 3), -1)
      [] kind = "dangling"   -> Slot(16384, Le32(256 * Layout.absent), -1)
      \* an overflow slot two bytes before the end of the page
      [] kind = "cutpointer" -> Slot(16384, <<>>, PageSizeOf(v) - 2)
      [] kind = "packed"     -> Slot(0, TextRecord(v, 5, 7, PackedHi, 15), -1)
      [] kind = "bom"        -> Slot(0, TextRecord(v, 5, 7, BomHi, 15), -1)

\* the tuples over S of length at most n
RECURSIVE TuplesUpTo(_, _)
TuplesUpTo(S, n) ==
    IF n = 0 THEN {<<>>}
    ELSE LET T == TuplesUpTo(S, n - 1)
         IN  T \cup {Append(t, x) : t \in {u \in T : Len(u) = n - 1}, x \in S}

\* the image of a database holding the catalog and the table T, the owned-
\* pages usage map of T being the record ownedMap in slot 0 of page
\* Layout.usage, and the TDEF of T announcing variable_columns and
\* column_count
SchemaImage(v, jet_version, ownedMap, variable_columns, column_count, datas) ==
    LET usage == DataPageBytes(v, Layout.catalog,
                    << ownedMap, Slot(0, UsageMapBody(0, {}), -1) >>)
        cat   == TdefBytes(v, 1, Len(TableColumns), Layout.usage, 1, 1)
        tdef  == TdefBytes(v, variable_columns, column_count, Layout.usage, 0, 1)
    IN  ImageOf(v, <<HeaderBytes(jet_version), usage, cat, tdef>> \o datas,
                0, EmptyMap)

\* that image when T has the columns of TableColumns
MapImage(v, jet_version, ownedMap, datas) ==
    SchemaImage(v, jet_version, ownedMap, 1, Len(TableColumns), datas)

\* the image of a database holding the catalog and the table T: the owned-
\* pages usage map of T lists the pages of owned, its free-space map and both
\* maps of the catalog are empty; datas[i] are the bytes of page
\* Layout.data + i - 1
TableImage(v, jet_version, owned, datas) ==
    MapImage(v, jet_version, Slot(0, UsageMapBody(0, owned), -1), datas)

\* a row of the catalog table
CatalogRow(name, type, flags, id) ==
    [Name |-> name, Type |-> type, Flags |-> flags, Id |-> id,
     LvProp |-> name = "T"]

\* the decoded catalog table, column by column
CatalogTable(rows) ==
    [Name   |-> [i \in DOMAIN rows |-> rows[i].Name],
     Type   |-> [i \in DOMAIN rows |-> rows[i].Type],
     Flags  |-> [i \in DOMAIN rows |-> rows[i].Flags],
     Id     |-> [i \in DOMAIN rows |-> rows[i].Id],
     LvProp |-> [i \in DOMAIN rows |-> rows[i].LvProp]]

\* the catalog of the drawn table images: the system table and T
StdCatalog ==
    CatalogTable(<< CatalogRow("MSysObjects", 1, <<-32768, 0>>, Layout.catalog),
                    CatalogRow("T", 1, <<0, 0>>, Layout.tdef) >>)

(* ------------------------------------------------------------------- state *)
VARIABLES
    db_data,          \* the image
    schema_in,        \* TDEF offset -> the column array parsed from that TDEF
    msys_in,          \* the catalog table as AccessTable.parse() decodes it
    pc,               \* where AccessParser.__init__ stands
    version, page_size,
    table_defs, data_pages, all_pages,
    tables_with_data, \* TDEF offset -> TableObj
    catalog, extra_props,
    exc,              \* the exception that ended the last operation, or "none"
    log,              \* what was logged
    call,             \* the last call and what it gave, or the call about to
                      \* be made on a function of utils.py and its arguments
    h,                \* the AccessTable handle
    parsed_table,     \* its parsed_table
    tpc,              \* where the handle's parse() stands
    cur,              \* the cursor of parse(): page, slot, last_offset
    walk,             \* history: one entry per page and per record slot
                      \* processed, last_offset being the cursor it left
    returned,         \* what parse() returned
    memo              \* the call of _parse_memo on the handle: its argument,
                      \* the locals of its LVAL type 2 loop, what it gave

vars == <<db_data, schema_in, msys_in, pc, version, page_size, table_defs,
          data_pages, all_pages, tables_with_data, catalog, extra_props, exc,
          log, call, h, parsed_table, tpc, cur, walk, returned, memo>>

facadeVars == <<db_data, schema_in, msys_in, pc, version, page_size, table_defs,
                data_pages, all_pages, catalog, extra_props, log, call>>

NoHandle == [state |-> "none"]
NoCall == [op |-> "none"]
NoCursor == [page |-> 0, slot |-> 0, last_offset |-> -1, offsets |-> <<>>]
NoReturn == [keys |-> <<>>, cols |-> EmptyMap]
NoMemo == [state |-> "none"]

(* ------------------------------------------------------------ AccessTable  *)
\* every record running to the end of the page
slot_record_ToPageEnd(data, rec_offset, last_offset) == From(data, rec_offset)

\* the bytes of a slot with neither flag: "if not last_offset" takes None
\* (-1 here) and 0 alike
slot_record(data, rec_offset, last_offset) ==
    IF last_offset = -1 \/ last_offset = 0
    THEN From(data, rec_offset)
    ELSE Slice(data, rec_offset, last_offset)

\* one turn of the "for rec_offset in parsed_data.record_offsets" loop of
\* parse() on the page data: [kind, last_offset, pt, exc, called, rows, record]
\* last_offset = -1 stands for None
slot_step(hd, dp, data, rec_offset, last_offset, pt) ==
    LET ps == hd.page_size
        v  == hd.version
        out(kind, last, r, called, record) ==
            [kind |-> kind, last_offset |-> last, pt |-> r.pt, exc |-> r.exc,
             called |-> called, rows |-> r.rows, record |-> record]
        skip(e) == [pt |-> pt, exc |-> e, rows |-> 0]
    IN  IF (rec_offset \div 32768) % 2 = 1
        THEN out("deleted", rec_offset % 4096, skip("none"), FALSE, EmptyBuf)
        ELSE IF (rec_offset \div 16384) % 2 = 1
        THEN LET rec_ptr_offset == rec_offset % 4096
                 ptrBytes == Slice(data, rec_ptr_offset, rec_ptr_offset + 4)
                 got == get_overflow_record(U32(ptrBytes, 0), dp, v, ps)
             IN  IF ptrBytes.size < 4
                 THEN out("overflow", rec_ptr_offset, skip("struct.error"), FALSE, EmptyBuf)
                 ELSE IF got.kind \notin {"record", "None"}
                 THEN out("overflow", rec_ptr_offset, skip(got.kind), FALSE, EmptyBuf)
                 ELSE IF got.kind = "None" \/ got.record.size = 0
                 THEN out("overflow", rec_ptr_offset, skip("none"), FALSE, got.record)
                 ELSE out("overflow", rec_ptr_offset, parse_row(got.record, hd, pt),
                          TRUE, got.record)
        ELSE LET record == slot_record(data, rec_offset, last_offset)
             IN  IF record.size = 0
                 THEN out("normal", rec_offset, skip("none"), FALSE, record)
                 ELSE out("normal", rec_offset, parse_row(record, hd, pt), TRUE, record)

\* the reordering without the defaultdict: only the columns that got a value
ordered_result_OnlyFilled(hd, pt) ==
    LET keys  == Ascending({k \in DOMAIN hd.columns :
                               hd.columns[k].col_name_str \in DOMAIN pt})
        names == [i \in DOMAIN keys |-> hd.columns[keys[i]].col_name_str]
    IN  [keys |-> names,
         cols |-> [n \in {names[i] : i \in DOMAIN names} |-> Column(pt, n)]]

\* the result of parse(): the columns in ascending key order
ordered_result(hd, pt) ==
    LET keys  == Ascending(DOMAIN hd.columns)
        names == [i \in DOMAIN keys |-> hd.columns[keys[i]].col_name_str]
    IN  [keys |-> names,
         cols |-> [n \in {names[i] : i \in DOMAIN names} |-> Column(pt, n)]]

\* create_empty_table(): the columns in dict order, each an empty list
create_empty_table(hd) ==
    LET names == [i \in DOMAIN hd.keys |-> hd.columns[hd.keys[i]].col_name_str]
    IN  [keys |-> names,
         cols |-> [n \in {names[i] : i \in DOMAIN names} |-> <<>>]]

\* get_table(table_name) up to and including AccessTable.__init__:
\* [kind, ...]; kind is "None" (nothing returned), "table" or the exception
\* raised; twd is tables_with_data as the call leaves it
\* Given the TDEF offset of the table and what AccessTable.__init__ got
\* from _get_table_columns.
new_table(table_name, offset, twd, td, props, schema, r) ==
    LET shared == offset \in DOMAIN twd
        out(kind, t) ==
            [kind |-> kind, offset |-> offset, shared |-> shared, table |-> t,
             twd  |-> IF shared THEN [twd EXCEPT ![offset] = t] ELSE twd,
             columns |-> r.columns,
             keys |-> IF kind = "table" THEN column_keys(schema[offset]) ELSE <<>>,
             variable_columns |-> r.variable_columns]
        none == [kind |-> "None", offset |-> 0, shared |-> FALSE,
                 table |-> TableObj(0), twd |-> twd, columns |-> EmptyMap,
                 keys |-> <<>>, variable_columns |-> 0]
    IN  IF offset = 0 THEN none
        ELSE IF ~shared /\ offset \notin DOMAIN td THEN none
        ELSE IF table_name # "MSysObjects" /\ props.kind = "None"
        THEN [none EXCEPT !.kind = "TypeError"]
        ELSE IF r.exc # "none" THEN out(r.exc, r.t)
        ELSE out("table", r.t)

\* the table the offset stands for: the linked TableObj or a fresh one
table_at(table_name, offset, twd, td, dp, ap, v, ps, props, schema) ==
    new_table(table_name, offset, twd, td, props, schema,
              get_table_columns(IF offset \in DOMAIN twd THEN twd[offset]
                                ELSE TableObj(offset),
                                schema[offset], td, dp, ap, v, ps))

get_table(table_name, cat, twd, td, dp, ap, v, ps, props, schema) ==
    table_at(table_name,
             (IF table_name \in DOMAIN cat THEN cat[table_name] ELSE 0) * ps,
             twd, td, dp, ap, v, ps, props, schema)

\* the handle AccessTable.__init__ leaves
Handle(name, g, v, ps) ==
    [state |-> "ready", name |-> name, offset |-> g.offset, shared |-> g.shared,
     table |-> g.table, columns |-> g.columns, keys |-> g.keys,
     variable_columns |-> g.variable_columns, version |-> v, page_size |-> ps]

\* self.table.owned_pages of the handle
OwnedPages ==
    IF h.state = "none" THEN <<>>
    ELSE IF h.shared THEN tables_with_data[h.offset].owned_pages
    ELSE h.table.owned_pages

\* parse_msys_table, given the table parse_table("MSysObjects") decoded
msys_props(msys_table) ==
    IF msys_table.Name = <<>> \/ msys_table.LvProp = <<>>
    THEN [kind |-> "list", names |-> {}]
    ELSE [kind |-> "dict",
          names |-> {msys_table.Name[i] : i \in {j \in DOMAIN msys_table.Name :
                                                   msys_table.LvProp[j]}}]

(* ------------------------------------------------------------------ actions *)
\* AccessParser.__init__: _parse_file_header
ParseFileHeader ==
    /\ pc = "new"
    /\ LET head == ACCESSHEADER(db_data)
           fv   == FileVersion(head.jet_version)
       IN  IF ~head.ok
           THEN /\ pc' = "raised"
                /\ exc' = "ValueError"
                /\ UNCHANGED <<version, page_size, log>>
           ELSE /\ pc' = "header"
                /\ version' = fv.version
                /\ page_size' = fv.page_size
                /\ log' = IF fv.logged THEN log \cup {"unknown version"} ELSE log
                /\ exc' = exc
    /\ UNCHANGED <<db_data, schema_in, msys_in, table_defs, data_pages, all_pages,
                   tables_with_data, catalog, extra_props, call, h, parsed_table,
                   tpc, cur, walk, returned, memo>>

\* AccessParser.__init__: categorize_pages
CategorizePages ==
    /\ pc = "header"
    /\ LET c == categorize_pages(db_data, page_size)
       IN  /\ table_defs' = c.table_defs
           /\ data_pages' = c.data_pages
           /\ all_pages' = c.pages
           /\ log' = IF c.warned THEN log \cup {"not full"} ELSE log
    /\ pc' = "pages"
    /\ UNCHANGED <<db_data, schema_in, msys_in, version, page_size,
                   tables_with_data, catalog, extra_props, exc, call, h,
                   parsed_table, tpc, cur, walk, returned, memo>>

\* AccessParser.__init__: _link_tables_to_data
LinkTablesToData ==
    /\ pc = "pages"
    /\ tables_with_data' = link_tables_to_data(data_pages, table_defs, version, page_size)
    /\ pc' = "linked"
    /\ UNCHANGED <<db_data, schema_in, msys_in, version, page_size, table_defs,
                   data_pages, all_pages, catalog, extra_props, exc, log, call, h,
                   parsed_table, tpc, cur, walk, returned, memo>>

\* _parse_catalog, r being what AccessTable.__init__ got from
\* _get_table_columns for the TableObj at off
CatalogParsed(off, r) ==
    /\     IF off \notin DOMAIN tables_with_data
           THEN /\ pc' = "raised"
                /\ exc' = "KeyError"
                /\ UNCHANGED <<tables_with_data, catalog>>
           ELSE /\ tables_with_data' = [tables_with_data EXCEPT ![off] = r.t]
                /\ IF r.exc # "none"
                   THEN pc' = "raised" /\ exc' = r.exc /\ catalog' = catalog
                   ELSE /\ pc' = "catalog"
                        /\ exc' = exc
                        /\ catalog' = catalog_mapping(msys_in, 1, EmptyMap)
    /\ UNCHANGED <<db_data, schema_in, msys_in, version, page_size, table_defs,
                   data_pages, all_pages, extra_props, log, call, h, parsed_table,
                   tpc, cur, walk, returned, memo>>

\* AccessParser.__init__: _parse_catalog. The rows that AccessTable.parse()
\* decodes from the catalog's pages are msys_in.
ParseCatalog ==
    /\ pc = "linked"
    /\ CatalogParsed(2 * page_size,
                     get_table_columns(tables_with_data[2 * page_size],
                                       schema_in[2 * page_size], table_defs,
                                       data_pages, all_pages, version, page_size))

\* parse_msys_table, g being what get_table("MSysObjects") gave
MsysTableParsed(g) ==
    /\ LET UserTable == [Name |-> <<>>, LvProp |-> <<>>]
       IN  /\ tables_with_data' = g.twd
           /\ IF g.kind = "table"
              THEN /\ pc' = "ready"
                   /\ exc' = exc
                   /\ extra_props' = msys_props(IF g.offset = 2 * page_size
                                                THEN msys_in ELSE UserTable)
              ELSE /\ pc' = "raised"
                   /\ exc' = IF g.kind = "None" THEN "AttributeError" ELSE g.kind
                   /\ extra_props' = extra_props
    /\ UNCHANGED <<db_data, schema_in, msys_in, version, page_size, table_defs,
                   data_pages, all_pages, catalog, log, call, h, parsed_table,
                   tpc, cur, walk, returned, memo>>

\* AccessParser.__init__: parse_msys_table, which is parse_table("MSysObjects")
ParseMsysTable ==
    /\ pc = "catalog"
    /\ MsysTableParsed(get_table("MSysObjects", catalog, tables_with_data,
                                 table_defs, data_pages, all_pages, version,
                                 page_size, extra_props, schema_in))

\* the names the public operations are called with: T, the system table, and
\* a name no catalog row has
CallNames == {"T", "MSysObjects", "Nope"}

\* the effect shared by get_table(name) and parse_table(name), g being what
\* get_table gave: the handle is made, or nothing is
MakeHandle(op, name, g) ==
        /\ tables_with_data' = g.twd
        /\ log' = IF g.kind = "None" THEN log \cup {"could not find table"} ELSE log
        /\ IF g.kind = "table"
           THEN /\ h' = Handle(name, g, version, page_size)
                /\ parsed_table' = EmptyMap
                /\ walk' = <<>>
                /\ tpc' = "constructed"
                /\ exc' = "none"
                /\ call' = [op |-> op, name |-> name, result |-> "handle"]
           ELSE /\ UNCHANGED <<h, parsed_table, walk, tpc>>
                /\ IF g.kind = "None" /\ op = "get_table"
                   THEN /\ exc' = "none"
                        /\ call' = [op |-> op, name |-> name, result |-> "None"]
                   ELSE \* parse_table: None.parse() is an AttributeError
                        /\ exc' = IF g.kind = "None" THEN "AttributeError" ELSE g.kind
                        /\ call' = [op |-> op, name |-> name, result |-> "raised"]
        /\ UNCHANGED <<db_data, schema_in, msys_in, pc, version, page_size,
                       table_defs, data_pages, all_pages, catalog, extra_props,
                       cur, returned, memo>>

\* AccessParser.get_table(table_name)
GetTable(name) ==
    /\ pc = "ready"
    /\ tpc = "none"
    /\ MakeHandle("get_table", name,
                  get_table(name, catalog, tables_with_data, table_defs, data_pages,
                            all_pages, version, page_size, extra_props, schema_in))

\* AccessParser.parse_table(table_name): get_table(table_name).parse(); the
\* parse() of the handle goes on with ParseStart
ParseTable(name) ==
    /\ pc = "ready"
    /\ tpc = "none"
    /\ MakeHandle("parse_table", name,
                  get_table(name, catalog, tables_with_data, table_defs, data_pages,
                            all_pages, version, page_size, extra_props, schema_in))

\* AccessParser.parse_table(table_name) called once more with the name of
\* the table whose parse() has returned: a new handle, the result of the
\* call before still in returned
ParseTableAgain(name) ==
    /\ pc = "ready"
    /\ tpc = "done"
    /\ name = h.name
    /\ MakeHandle("parse_table", name,
                  get_table(name, catalog, tables_with_data, table_defs, data_pages,
                            all_pages, version, page_size, extra_props, schema_in))

\* AccessTable.parse() called a second time on the handle whose parse() has
\* returned: self.parsed_table is what that parse() left, and parse() goes
\* on with ParseStart
ParseAgain ==
    /\ h.state = "ready"
    /\ tpc = "done"
    /\ call.op # "parse"
    /\ call' = [op |-> "parse", name |-> h.name, result |-> "handle"]
    /\ tpc' = "constructed"
    /\ UNCHANGED <<db_data, schema_in, msys_in, pc, version, page_size,
                   table_defs, data_pages, all_pages, tables_with_data, catalog,
                   extra_props, exc, log, h, parsed_table, cur, walk, returned,
                   memo>>

\* AccessTable.parse(): the owned_pages test and create_empty_table
ParseStart ==
    /\ tpc = "constructed"
    /\ IF OwnedPages = <<>>
       THEN /\ returned' = create_empty_table(h)
            /\ tpc' = "done"
            /\ cur' = cur
       ELSE /\ tpc' = "page"
            /\ cur' = [NoCursor EXCEPT !.page = 1]
            /\ returned' = returned
    /\ UNCHANGED <<facadeVars, tables_with_data, exc, h, parsed_table, walk, memo>>

\* the entry of walk for a page taken from owned_pages: slot 0
PageEntry(page, pt) ==
    [page |-> page, slot |-> 0, raw |-> 0, kind |-> "page", called |-> FALSE,
     rows |-> 0, exc |-> "none", record |-> EmptyBuf, before |-> pt, after |-> pt,
     last_offset |-> -1]

\* AccessTable.parse(): parse_data_page_header of the next owned page
PageHeader ==
    /\ tpc = "page"
    /\ cur.page <= Len(OwnedPages)
    /\ LET parsed_data == parse_data_page_header(all_pages[OwnedPages[cur.page]], version)
       IN  IF parsed_data.ok
           THEN /\ tpc' = "slot"
                /\ cur' = [page |-> cur.page, slot |-> 1, last_offset |-> -1,
                           offsets |-> parsed_data.record_offsets]
                /\ exc' = exc
           ELSE /\ tpc' = "raised"
                /\ exc' = "ConstructError"
                /\ cur' = cur
    /\ walk' = Append(walk, PageEntry(OwnedPages[cur.page], parsed_table))
    /\ UNCHANGED <<facadeVars, tables_with_data, h, parsed_table, returned, memo>>

\* the effect of one turn of the record loop, r being what slot_step gave
SlotDone(page, rec_offset, r) ==
        /\ parsed_table' = r.pt
        /\ walk' = Append(walk, [page |-> page, slot |-> cur.slot, raw |-> rec_offset,
                                 kind |-> r.kind, called |-> r.called, rows |-> r.rows,
                                 exc |-> r.exc, record |-> r.record,
                                 before |-> parsed_table, after |-> r.pt,
                                 last_offset |-> r.last_offset])
        /\ IF r.exc = "none"
           THEN /\ cur' = [cur EXCEPT !.slot = @ + 1, !.last_offset = r.last_offset]
                /\ UNCHANGED <<tpc, exc>>
           ELSE /\ tpc' = "raised"
                /\ exc' = r.exc
                /\ cur' = cur
        /\ UNCHANGED <<facadeVars, tables_with_data, h, returned, memo>>

\* one record slot of the page, whatever its flags
SlotStep ==
    SlotDone(OwnedPages[cur.page], cur.offsets[cur.slot],
             slot_step(h, data_pages, all_pages[OwnedPages[cur.page]],
                       cur.offsets[cur.slot], cur.last_offset, parsed_table))

\* AccessTable.parse(): a slot with bit 0x8000
SlotDeleted ==
    /\ tpc = "slot"
    /\ cur.slot <= Len(cur.offsets)
    /\ (cur.offsets[cur.slot] \div 32768) % 2 = 1
    /\ SlotStep

\* AccessTable.parse(): a slot with bit 0x4000 and not 0x8000
SlotOverflow ==
    /\ tpc = "slot"
    /\ cur.slot <= Len(cur.offsets)
    /\ (cur.offsets[cur.slot] \div 32768) % 2 = 0
    /\ (cur.offsets[cur.slot] \div 16384) % 2 = 1
    /\ SlotStep

\* AccessTable.parse(): a slot with neither flag
SlotNormal ==
    /\ tpc = "slot"
    /\ cur.slot <= Len(cur.offsets)
    /\ cur.offsets[cur.slot] \div 16384 = 0
    /\ SlotStep

\* AccessTable.parse(): the slots of the page are done
PageEnd ==
    /\ tpc = "slot"
    /\ cur.slot > Len(cur.offsets)
    /\ tpc' = "page"
    /\ cur' = [NoCursor EXCEPT !.page = cur.page + 1]
    /\ UNCHANGED <<facadeVars, tables_with_data, exc, h, parsed_table, walk, returned, memo>>

\* AccessTable.parse(): the final reordering and the return
ParseFinish ==
    /\ tpc = "page"
    /\ cur.page > Len(OwnedPages)
    /\ returned' = ordered_result(h, parsed_table)
    /\ parsed_table' = returned'.cols
    /\ tpc' = "done"
    /\ UNCHANGED <<facadeVars, tables_with_data, exc, h, cur, walk, memo>>

\* what a step of _parse_memo leaves: the call, and the exception if it
\* raised one
MemoStep(m) ==
    /\ memo' = m
    /\ exc' = IF m.state = "raised" THEN m.exc ELSE exc
    /\ UNCHANGED <<facadeVars, tables_with_data, h, parsed_table, tpc, cur, walk,
                   returned>>

\* AccessTable._parse_memo(relative_obj_data): the descriptor, the inline and
\* the LVAL type 1 branches, and the LVAL type 2 branch up to its loop
ParseMemo ==
    /\ h.state = "ready"
    /\ memo.state = "pending"
    /\ MemoStep(parse_memo(memo, data_pages, h.version, h.page_size))

\* AccessTable._parse_memo: one turn of the LVAL type 2 loop, which follows
\* the next-page link
MemoLink ==
    /\ memo.state = "chain"
    /\ memo.next_page # 0
    /\ memo.links < MaxLinks
    /\ MemoStep(memo_link(memo, data_pages, h.version, h.page_size))

\* AccessTable._parse_memo: the LVAL type 2 loop ends on a zero link
MemoDone ==
    /\ memo.state = "chain"
    /\ memo.next_page = 0
    /\ MemoStep(memo_done(memo, h.version))

\* the result of a function of utils.py called on its own: the value, or the
\* exception it raised
Applied(r, e) ==
    /\ call' = [call EXCEPT !.state = IF r.ok THEN "returned" ELSE "raised",
                            !.result = r.val]
    /\ exc' = IF r.ok THEN "none" ELSE e
    /\ UNCHANGED <<db_data, schema_in, msys_in, pc, version, page_size, table_defs,
                   data_pages, all_pages, tables_with_data, catalog, extra_props,
                   log, h, parsed_table, tpc, cur, walk, returned, memo>>

\* utils.numeric_to_string(bytes_num, scale)
NumericToString ==
    /\ pc = "pure"
    /\ call.op = "numeric_to_string"
    /\ call.state = "pending"
    /\ Applied(numeric_to_string(call.bytes_num, call.scale), "struct.error")

(* --------------------------------------------------------------------- Init *)
\* the column array of every TDEF page is TableColumns
SchemaOf(img) == [o \in PageOffsets(img, PAGE_SIZE_V3) |-> TableColumns]

\* every variable as construction finds it, c being the call about to be made
StartFrom(img, schema, msys, p, c, m) ==
    /\ db_data = img
    /\ schema_in = schema
    /\ msys_in = msys
    /\ pc = p
    /\ version = 0
    /\ page_size = 0
    /\ table_defs = EmptyMap
    /\ data_pages = EmptyMap
    /\ all_pages = EmptyMap
    /\ tables_with_data = EmptyMap
    /\ catalog = EmptyMap
    /\ extra_props = [kind |-> "None", names |-> {}]
    /\ exc = "none"
    /\ log = {}
    /\ call = c
    /\ h = NoHandle
    /\ parsed_table = EmptyMap
    /\ tpc = "none"
    /\ cur = NoCursor
    /\ walk = <<>>
    /\ returned = NoReturn
    /\ memo = m

\* every TDEF of the image holding the columns of TableColumns
StartAt(img, msys, p, c, m) == StartFrom(img, SchemaOf(img), msys, p, c, m)

\* AccessParser(img) about to be constructed
Start(img, msys) == StartAt(img, msys, "new", NoCall, NoMemo)

\* a data page of T holding one well-formed record whose A is a
OneRecordPage(v, owner, a) ==
    DataPageBytes(v, owner, <<Slot(0, GoodRecord(v, a, 7, 15), -1)>>)

\* a data page holding two well-formed records, the offset of the second
\* carrying bit 0x8000
TwoRecordPage(v, owner, a) ==
    DataPageBytes(v, owner, << Slot(0, GoodRecord(v, a, 7, 15), -1),
                               Slot(32768, GoodRecord(v, a + 1, 7, 15), -1) >>)

\* the table T on one data page with the drawn slots; the page after it is a
\* data page that names T as its owner, is not in T's usage map, and holds
\* the records the overflow slots point at
InitSlots ==
    \E v \in {3, 4} : \E kinds \in TuplesUpTo(SlotKinds, MaxSlots) :
        LET slots == [i \in DOMAIN kinds |-> SlotOf(v, kinds[i], Layout.data + 1)]
        IN  Start(TableImage(v, JetVersionOf(v), {Layout.data},
                             << DataPageBytes(v, Layout.tdef, slots),
                                TwoRecordPage(v, Layout.tdef, 9) >>),
                  StdCatalog)

\* a data page whose record_count says more slots than a page can hold
OverfullPage(v, owner) ==
    PutSeq(0, DATA_PAGE_MAGIC) @@ Put32(4, owner)
    @@ Put16(IF v > 3 THEN 12 ELSE 8, 65535)

\* the table T on MaxDataPages data pages, each in or out of the usage map
\* and each naming T or another page as its owner; the last of them holds
\* one record or is overfull
InitUsage ==
    \E v \in {3, 4} :
    \E owned \in SUBSET (Layout.data..(Layout.data + MaxDataPages - 1)) :
    \E owners \in [1..MaxDataPages -> {Layout.tdef, Layout.absent}] :
    \E overfull \in BOOLEAN :
        Start(TableImage(v, JetVersionOf(v), owned,
                         [i \in 1..MaxDataPages |->
                             IF overfull /\ i = MaxDataPages
                             THEN OverfullPage(v, owners[i])
                             ELSE OneRecordPage(v, owners[i], Layout.data + i - 1)]),
              StdCatalog)

\* the values jet_version is drawn from
JetVersions == {0, 1, 2, 3, 4, 255}
HeaderKinds == {"ok", "magic", "short", "empty"}

\* a one-page table image behind each kind of file header: well-formed, with
\* a wrong magic, cut before the end of the header, and empty
InitHeader ==
    \E jv \in JetVersions : \E kind \in HeaderKinds :
        LET v3  == IF jv \in NEW_VERSIONS THEN 4 ELSE 3
            img == TableImage(v3, jv, {Layout.data},
                              <<OneRecordPage(v3, Layout.tdef, 5)>>)
        IN  Start(CASE kind = "ok"    -> img
                    [] kind = "magic" -> MkBuf(img.size, (3 :> 1) @@ img.mem)
                    [] kind = "short" -> Slice(img, 0, 100)
                    [] kind = "empty" -> EmptyBuf,
                  StdCatalog)

PageKinds == {"data", "tdef", "other", "swapped"}
TailKinds == {"none", "byte", "data", "tdef"}

\* the bytes of a page of each kind: a data page (the usage maps), a TDEF
\* page, a page of zeros, a page that starts 01 02
PageOfKind(v, kind) ==
    CASE kind = "data"    -> DataPageBytes(v, Layout.catalog,
                                << Slot(0, UsageMapBody(0, {}), -1),
                                   Slot(0, UsageMapBody(0, {}), -1) >>)
      [] kind = "tdef"    -> TdefBytes(v, 1, Len(TableColumns), Layout.usage, 1, 1)
      [] kind = "other"   -> EmptyMap
      [] kind = "swapped" -> PutSeq(0, <<1, 2>>)

\* a fragment after the last whole page: [length, bytes]
TailOfKind(kind) ==
    CASE kind = "none" -> [len |-> 0, mem |-> EmptyMap]
      [] kind = "byte" -> [len |-> 1, mem |-> PutSeq(0, <<1>>)]
      [] kind = "data" -> [len |-> 6, mem |-> PutSeq(0, DATA_PAGE_MAGIC)]
      [] kind = "tdef" -> [len |-> 6, mem |-> PutSeq(0, TABLE_PAGE_MAGIC)]

\* an image drawn page by page, with or without a fragment at its end
InitLayout ==
    \E v \in {3, 4} : \E kinds \in TuplesUpTo(PageKinds, MaxPages) :
    \E tail \in TailKinds :
        Start(ImageOf(v, <<HeaderBytes(JetVersionOf(v))>>
                         \o [i \in DOMAIN kinds |-> PageOfKind(v, kinds[i])],
                      TailOfKind(tail).len, TailOfKind(tail).mem),
              StdCatalog)

CatalogNames == {"MSysObjects", "T"}
CatalogTypes == {1, 5}
\* 0, 2 and -0x80000000
CatalogFlags == {<<0, 0>>, <<0, 2>>, <<-32768, 0>>}

\* a one-page table image whose catalog rows are drawn; the Id of row i is
\* the page number Layout.catalog + i - 1
InitCatalog ==
    \E rows \in TuplesUpTo(CatalogNames \X CatalogTypes \X CatalogFlags, MaxCatalogRows) :
        Start(TableImage(4, VERSION_4, {Layout.data},
                         <<OneRecordPage(4, Layout.tdef, 5)>>),
              CatalogTable([i \in DOMAIN rows |->
                  CatalogRow(rows[i][1], rows[i][2], rows[i][3],
                             Layout.catalog + i - 1)]))

\* the 17 bytes of a decimal: the sign byte, then four little-endian 32-bit
\* limbs, each given as <<high half, low half>>
NumericBytes(neg, limbs) ==
    MkBuf(17, PutSeq(0, <<neg>>)
              @@ PutSeq(1, Flat([i \in 1..4 |-> Le16(limbs[i][2]) \o Le16(limbs[i][1])])))

\* the drawn decimals: the limbs num1..num4 and the decimal digits of
\* (num1 << 96) + (num2 << 64) + (num3 << 32) + num4
NumericCases ==
    { [limbs |-> <<<<0, 0>>, <<0, 0>>, <<0, 0>>, <<0, 0>>>>,
       digits |-> <<0>>],
      [limbs |-> <<<<0, 0>>, <<0, 0>>, <<0, 0>>, <<0, 1498>>>>,
       digits |-> <<1, 4, 9, 8>>],
      [limbs |-> <<<<0, 0>>, <<0, 0>>, <<0, 0>>, <<2285, 54408>>>>,
       digits |-> <<1, 4, 9, 8, 0, 4, 1, 6, 8>>],
      [limbs |-> <<<<0, 0>>, <<0, 0>>, <<0, 1>>, <<0, 0>>>>,
       digits |-> <<4, 2, 9, 4, 9, 6, 7, 2, 9, 6>>],
      [limbs |-> <<<<0, 0>>, <<0, 1>>, <<0, 0>>, <<0, 0>>>>,
       digits |-> <<1, 8, 4, 4, 6, 7, 4, 4, 0, 7, 3, 7, 0, 9, 5, 5, 1, 6, 1, 6>>],
      [limbs |-> <<<<0, 1>>, <<0, 2>>, <<0, 3>>, <<0, 4>>>>,
       digits |-> <<7, 9, 2, 2, 8, 1, 6, 2, 5, 5, 1, 1, 5, 7, 8, 2, 5, 7, 5, 3, 8, 4, 7, 9, 5, 5, 4, 6, 0>>],
      [limbs |-> <<<<65535, 65535>>, <<65535, 65535>>, <<65535, 65535>>, <<65535, 65535>>>>,
       digits |-> <<3, 4, 0, 2, 8, 2, 3, 6, 6, 9, 2, 0, 9, 3, 8, 4, 6, 3, 4, 6, 3, 3, 7, 4, 6, 0, 7, 4, 3, 1, 7, 6, 8, 2, 1, 1, 4, 5, 5>>] }

SignBytes == {0, 1, 255}

\* numeric_to_string about to be called on a drawn decimal with a drawn
\* scale
InitNumeric ==
    \E c \in NumericCases : \E neg \in SignBytes : \E scale \in 0..MaxScale :
        StartAt(EmptyBuf, StdCatalog, "pure",
                [op |-> "numeric_to_string", bytes_num |-> NumericBytes(neg, c.limbs),
                 scale |-> scale, state |-> "pending", result |-> <<>>],
                NoMemo)

\* a pointer at record slot idx of page
Pointer(page, idx) == 256 * page + idx

\* the long-value page of the drawn memo images, at Layout.data: slot 0 ends
\* a chain, slot 1 links to slot 0, slot 2 links to itself
LvalPage(v) ==
    DataPageBytes(v, Layout.tdef,
                  << Slot(0, Le32(0) \o <<67, 68>>, -1),
                     Slot(0, Le32(Pointer(Layout.data, 0)) \o <<65, 66>>, -1),
                     Slot(0, Le32(Pointer(Layout.data, 2)) \o <<69>>, -1) >>)

\* a memo descriptor: memo_length (given as its high byte and its low three
\* bytes), record_pointer, memo_unknown, and the bytes that follow
MemoBytes(top, len, record_pointer, rest) ==
    BufOf(<<len % 256, (len \div 256) % 256, len \div 65536, top>>
          \o Le32(record_pointer) \o Le32(0) \o rest)

MemoKinds ==
    {"inline", "both", "cut", "nothing", "lval1", "chain", "cycle", "dangling",
     "short"}

\* the descriptor of each kind
MemoOfKind(kind) ==
    CASE kind = "inline"   -> MemoBytes(128, 5, 0, <<65, 66, 67, 68, 69>>)
      \* the bits 0x80000000 and 0x40000000 both set, a byte more than the length
      [] kind = "both"     -> MemoBytes(192, 2, Pointer(Layout.data, 0), <<65, 66, 67>>)
      \* fewer bytes than the length says
      [] kind = "cut"      -> MemoBytes(128, 5, 0, <<65, 66>>)
      [] kind = "nothing"  -> MemoBytes(128, 0, 0, <<>>)
      [] kind = "lval1"    -> MemoBytes(64, 2, Pointer(Layout.data, 0), <<>>)
      [] kind = "chain"    -> MemoBytes(0, 4, Pointer(Layout.data, 1), <<>>)
      [] kind = "cycle"    -> MemoBytes(0, 4, Pointer(Layout.data, 2), <<>>)
      [] kind = "dangling" -> MemoBytes(0, 4, Pointer(Layout.absent, 0), <<>>)
      [] kind = "short"    -> BufOf(<<5, 0, 0, 128, 0, 0>>)

\* the table T without rows beside a long-value page, and _parse_memo about
\* to be called on a handle of T with a drawn descriptor
InitMemo ==
    \E v \in {3, 4} : \E kind \in MemoKinds : \E raw \in BOOLEAN :
        StartAt(TableImage(v, JetVersionOf(v), {}, <<LvalPage(v)>>), StdCatalog,
                "new", NoCall,
                Memo("pending", MemoOfKind(kind), raw, "none", EmptyBuf, 0, <<>>, 0,
                     VNone, "none"))

\* the start pages, the bitmap bytes and the flag bits of the slot entry that
\* the usage maps are drawn from
MapStartPages == {0, 3}
MapFirstBytes == {0, 6, 48, 130}
MapSecondBytes == {0, 1, 129}
MapFlags == {0, 40960}

\* the pages of zeros that follow the data pages of T
MapBlankPages == 6

\* the table T on two data pages, its owned-pages usage map having a drawn
\* start page and drawn bitmap bytes, and the entry of its slot drawn flag bits
InitMaps ==
    \E v \in {3, 4} : \E start_page \in MapStartPages : \E flag \in MapFlags :
    \E b0 \in MapFirstBytes : \E b1 \in MapSecondBytes :
        Start(MapImage(v, JetVersionOf(v),
                       Slot(flag, <<0>> \o Le32(start_page) \o <<b0, b1>>, -1),
                       << OneRecordPage(v, Layout.tdef, 4),
                          OneRecordPage(v, Layout.tdef, 5) >>
                       \o [i \in 1..MapBlankPages |-> EmptyMap]),
              StdCatalog)

\* the column a table got after its rows were written, of each kind: a
\* fixed-length INT8 or BOOLEAN, or a TEXT that is variable column 1, with a
\* drawn column_id
LateKinds == {"none", "fixed", "bool", "var"}
LateIds == {4, 8, 9}

LateColumns(kind, id) ==
    CASE kind = "none"  -> <<>>
      [] kind = "fixed" -> <<Col("G", TYPE_INT8, id, 0, 4, TRUE, 1)>>
      [] kind = "bool"  -> <<Col("G", TYPE_BOOLEAN, id, 0, 4, TRUE, 0)>>
      [] kind = "var"   -> <<Col("V", TYPE_TEXT, id, 1, 4, FALSE, 0)>>

\* the number of variable-length columns of a column array
VariableColumns(cols) == Cardinality({i \in DOMAIN cols : ~cols[i].fixed_length})

\* "yo" as the TEXT of each version
YoText(v) == IF v = 3 THEN <<121, 111>> ELSE <<121, 0, 111, 0>>

\* a record of T: A = 5, the byte 6, C = 7; B = "hi"; when two, pad bytes of
\* zeros and a second variable field "yo"; the trailer with the jump table
\* given (version 3), junk between it and the null bitmap
RowRecord(v, field_count, two, pad, jump, junk, bitmap) ==
    LET start == (IF v = 3 THEN 1 ELSE 2) + 4
        wide(o) == IF v = 3 THEN o % 256 ELSE o
        o1  == start + Len(HiText(v)) + pad
        end == IF two THEN o1 + Len(YoText(v)) ELSE start + Len(HiText(v))
    IN  RecordBytes(v, field_count, <<5, 6, 7, 0>>,
                    IF two THEN HiText(v) \o [i \in 1..pad |-> 0] \o YoText(v)
                    ELSE HiText(v),
                    wide(end),
                    IF two THEN <<wide(start), wide(o1)>> ELSE <<start>>,
                    jump, IF two THEN 2 ELSE 1, junk \o bitmap)

\* the bytes a record needs to have a jump table of one entry
JumpPad == 256

RowKinds ==
    {"all", "nullA", "nullB", "falseF", "late", "lateNullB", "wide", "wideLate",
     "junk", "two", "twoNullB", "jump0", "jump0NullB", "jump1", "jump1NullB",
     "jump7", "squeezed"}

\* the record of each kind: one-byte null bitmaps with drawn bits (bit 4 is
\* that of a late column), a field count of 9 and a two-byte bitmap, a
\* trailer behind four bytes of junk, two variable fields, and two variable
\* fields 256 bytes apart with a drawn jump table, and a record too short
\* for the bitmap its field count asks for
RowOfKind(v, kind) ==
    CASE kind = "all"        -> RowRecord(v, 4, FALSE, 0, <<>>, <<>>, <<15>>)
      [] kind = "nullA"      -> RowRecord(v, 4, FALSE, 0, <<>>, <<>>, <<14>>)
      [] kind = "nullB"      -> RowRecord(v, 4, FALSE, 0, <<>>, <<>>, <<13>>)
      [] kind = "falseF"     -> RowRecord(v, 4, FALSE, 0, <<>>, <<>>, <<7>>)
      [] kind = "late"       -> RowRecord(v, 5, FALSE, 0, <<>>, <<>>, <<31>>)
      [] kind = "lateNullB"  -> RowRecord(v, 5, FALSE, 0, <<>>, <<>>, <<29>>)
      [] kind = "wide"       -> RowRecord(v, 9, FALSE, 0, <<>>, <<>>, <<15, 0>>)
      [] kind = "wideLate"   -> RowRecord(v, 9, FALSE, 0, <<>>, <<>>, <<7, 1>>)
      [] kind = "junk"       -> RowRecord(v, 4, FALSE, 0, <<>>, <<9, 0, 0, 0>>, <<15>>)
      [] kind = "two"        -> RowRecord(v, 5, TRUE, 0, <<>>, <<>>, <<31>>)
      [] kind = "twoNullB"   -> RowRecord(v, 5, TRUE, 0, <<>>, <<>>, <<29>>)
      [] kind = "jump0"      -> RowRecord(v, 5, TRUE, JumpPad, <<0>>, <<>>, <<31>>)
      [] kind = "jump0NullB" -> RowRecord(v, 5, TRUE, JumpPad, <<0>>, <<>>, <<29>>)
      [] kind = "jump1"      -> RowRecord(v, 5, TRUE, JumpPad, <<1>>, <<>>, <<31>>)
      [] kind = "jump1NullB" -> RowRecord(v, 5, TRUE, JumpPad, <<1>>, <<>>, <<29>>)
      [] kind = "jump7"      -> RowRecord(v, 5, TRUE, JumpPad, <<7>>, <<>>, <<31>>)
      \* a field count of 9 and one byte more
      [] kind = "squeezed"   -> (IF v = 3 THEN <<9>> ELSE <<9, 0>>) \o <<15>>

\* the table T with a drawn late column, on one data page that holds one
\* record of a drawn kind
InitRows ==
    \E v \in {3, 4} : \E late \in LateKinds : \E id \in LateIds :
    \E kind \in RowKinds :
        LET cols == TableColumns \o LateColumns(late, id)
            img  == SchemaImage(v, JetVersionOf(v),
                                Slot(0, UsageMapBody(0, {Layout.data}), -1),
                                VariableColumns(cols), Len(cols),
                                <<DataPageBytes(v, Layout.tdef,
                                                <<Slot(0, RowOfKind(v, kind), -1)>>)>>)
        IN  StartFrom(img,
                      [o \in PageOffsets(img, PAGE_SIZE_V3) |->
                          IF o = Layout.tdef * PageSizeOf(v) THEN cols
                          ELSE TableColumns],
                      StdCatalog, "new", NoCall, NoMemo)

\* the families of images and of calls the behaviours start from
Families ==
    {"slots", "usage", "header", "layout", "catalog", "numeric", "memo", "maps",
     "rows"}

Init ==
    \E family \in Families :
        CASE family = "slots"   -> InitSlots
          [] family = "usage"   -> InitUsage
          [] family = "header"  -> InitHeader
          [] family = "layout"  -> InitLayout
          [] family = "catalog" -> InitCatalog
          [] family = "numeric" -> InitNumeric
          [] family = "memo"    -> InitMemo
          [] family = "maps"    -> InitMaps
          [] family = "rows"    -> InitRows

Next ==
    \/ ParseFileHeader
    \/ CategorizePages
    \/ LinkTablesToData
    \/ ParseCatalog
    \/ ParseMsysTable
    \/ \E name \in CallNames : GetTable(name)
    \/ \E name \in CallNames : ParseTable(name)
    \/ ParseStart
    \/ PageHeader
    \/ SlotDeleted
    \/ SlotOverflow
    \/ SlotNormal
    \/ PageEnd
    \/ ParseFinish
    \/ NumericToString
    \/ ParseMemo
    \/ MemoLink
    \/ MemoDone

Spec == Init /\ [][Next]_vars

\* the slots of the tables that are parsed more than once
RepeatKinds == {"good", "nullB", "deleted", "overflow"}

\* the table T with no page or one page in its usage map, the page holding
\* drawn slots
InitRepeat ==
    \E v \in {3, 4} : \E owned \in {{}, {Layout.data}} :
    \E kinds \in TuplesUpTo(RepeatKinds, MaxSlots) :
        LET slots == [i \in DOMAIN kinds |-> SlotOf(v, kinds[i], Layout.data + 1)]
        IN  Start(TableImage(v, JetVersionOf(v), owned,
                             << DataPageBytes(v, Layout.tdef, slots),
                                TwoRecordPage(v, Layout.tdef, 9) >>),
                  StdCatalog)

\* the operations of AccessParser and AccessTable, parse() and parse_table()
\* being called again after a parse() has returned
NextRepeat ==
    \/ ParseFileHeader
    \/ CategorizePages
    \/ LinkTablesToData
    \/ ParseCatalog
    \/ ParseMsysTable
    \/ \E name \in CallNames : GetTable(name)
    \/ \E name \in CallNames : ParseTable(name)
    \/ \E name \in CallNames : ParseTableAgain(name)
    \/ ParseAgain
    \/ ParseStart
    \/ PageHeader
    \/ SlotDeleted
    \/ SlotOverflow
    \/ SlotNormal
    \/ PageEnd
    \/ ParseFinish

SpecRepeat == InitRepeat /\ [][NextRepeat]_vars

(* ------------------------------------------------------------------ claims *)
\* the entries of walk that stand for record slots
SlotEntries == {i \in DOMAIN walk : walk[i].slot > 0}

\* the names of the columns of the handle's table
ColumnNames == {h.columns[k].col_name_str : k \in DOMAIN h.columns}

\* how many values the slot added to the column
Grew(w, name) == Len(Column(w.after, name)) - Len(Column(w.before, name))

\* the slot contributed a row: some column got a value
Emitted(w) == \E name \in ColumnNames : Grew(w, name) > 0

\* the flag bits of a slot's 16-bit offset
IsDeletedSlot(raw) == raw >= 32768
IsOverflowSlot(raw) == raw >= 16384 /\ raw < 32768

\* the record holds its field count and leaves room for its null bitmap
Readable(record) ==
    LET width == IF version > 3 THEN 2 ELSE 1
        field_count == IF version > 3 THEN At(record, 0) + 256 * At(record, 1)
                       ELSE At(record, 0)
        bitmap == (field_count + 7) \div 8
    IN  record.size >= width /\ bitmap > 0 /\ bitmap < record.size

\* C1: after parse() returns, every column's value list has the same length
C1_EqualColumnLengths ==
    tpc = "done" =>
        \A c, d \in DOMAIN returned.cols :
            Len(returned.cols[c]) = Len(returned.cols[d])

C3_MissReturnsEmpty ==
    (call.op = "parse_table" /\ call.name \notin DOMAIN catalog) =>
        /\ call.result = "None"
        /\ exc = "none"
        /\ "could not find table" \in log

\* C4: no exception leaves AccessTable.parse() because of one record, one
\* overflow pointer or one data page header
C4_NoAbort == tpc # "raised"

\* the page offsets that the owned-pages usage map of the handle's table
\* names, in map order
MapPages ==
    LET head == parse_table_head(table_defs[h.offset], version)
        map  == get_usage_map(data_pages, version, page_size,
                              head.row_page_map_page_number,
                              head.row_page_map_row_number)
    IN  [i \in DOMAIN map.pages |-> map.pages[i] * page_size]

IsPageEntry(w) == w.slot = 0

\* the pages parse() has taken up so far, in the order it took them
PagesWalked ==
    LET entries == SelectSeq(walk, IsPageEntry)
    IN  [i \in DOMAIN entries |-> entries[i].page]

\* the data pages whose owner field names the handle's table and which its
\* usage map does not name
StalePages ==
    {o \in DOMAIN data_pages :
        /\ U32(data_pages[o], 4) * page_size = h.offset
        /\ \A i \in DOMAIN MapPages : MapPages[i] # o}

\* the page the slot's record was read from: the slot's own page, or the
\* page its overflow pointer names
ReadFrom(w) ==
    IF IsOverflowSlot(w.raw)
    THEN (U32(all_pages[w.page], w.raw % 4096) \div 256) * page_size
    ELSE w.page

\* parse() takes the pages of the usage map, each once and in map order
WalksMapPages ==
    /\ \A i, j \in DOMAIN MapPages : i # j => MapPages[i] # MapPages[j]
    /\ Len(PagesWalked) <= Len(MapPages)
    /\ \A i \in DOMAIN PagesWalked : PagesWalked[i] = MapPages[i]
    /\ tpc = "done" => PagesWalked = MapPages
    /\ \A i \in SlotEntries : \E k \in DOMAIN PagesWalked : PagesWalked[k] = walk[i].page

\* C5 as stated: parse() reads records from exactly the pages of the usage
\* map, each once and in map order, and no row comes from a stale page
C5_StalePagesGiveNoRows ==
    h.state = "ready" =>
        /\ WalksMapPages
        /\ \A i \in SlotEntries :
               Emitted(walk[i]) => ReadFrom(walk[i]) \notin StalePages

\* C5 amended: parse() enumerates the record slots of exactly the pages of
\* the usage map, each once and in map order; the slots of a stale page are
\* never enumerated, and a row comes from a stale page only through the
\* overflow pointer of a slot of an enumerated page
C5_WalksUsageMap ==
    h.state = "ready" =>
        /\ WalksMapPages
        /\ \A i \in SlotEntries :
               (Emitted(walk[i]) /\ ReadFrom(walk[i]) \in StalePages)
                   => IsOverflowSlot(walk[i].raw)

\* a finished parse() of a table with two pages in its usage map, a stale
\* page beside them, and a row emitted
C5_Witness ==
    /\ tpc = "done"
    /\ Len(MapPages) >= 2
    /\ StalePages # {}
    /\ \E i \in SlotEntries : Emitted(walk[i])

\* categorize_pages has run
PagesClassified ==
    pc \in {"pages", "linked", "catalog", "ready"} \/ (pc = "raised" /\ exc # "ValueError")

\* the first two bytes of the page at offset o, when the image holds them
FirstTwo(o) ==
    IF o + 1 < db_data.size THEN <<At(db_data, o), At(db_data, o + 1)>> ELSE <<>>

\* C6: every page is classified exactly once: it is in the all-pages map, in
\* the table-definition map iff it starts 02 01, in the data-page map iff it
\* starts 01 01, never in both, and the two maps hold nothing else
C6_EachPageClassifiedOnce ==
    PagesClassified =>
        /\ DOMAIN all_pages =
               {k * page_size : k \in 0..((db_data.size - 1) \div page_size)}
        /\ \A o \in DOMAIN all_pages :
               /\ all_pages[o] = Slice(db_data, o, o + page_size)
               /\ o \in DOMAIN table_defs <=> FirstTwo(o) = <<2, 1>>
               /\ o \in DOMAIN data_pages <=> FirstTwo(o) = <<1, 1>>
        /\ DOMAIN table_defs \cap DOMAIN data_pages = {}
        /\ \A o \in DOMAIN table_defs : o \in DOMAIN all_pages /\ table_defs[o] = all_pages[o]
        /\ \A o \in DOMAIN data_pages : o \in DOMAIN all_pages /\ data_pages[o] = all_pages[o]

\* a classified image with a table-definition page, a data page and a page
\* that is neither
C6_Witness ==
    /\ PagesClassified
    /\ table_defs # EmptyMap
    /\ data_pages # EmptyMap
    /\ \E o \in DOMAIN all_pages : o \notin DOMAIN table_defs /\ o \notin DOMAIN data_pages /\ o > 0

\* C7: when the image length is not a multiple of the page size, the
\* violation is logged and the final partial page is in none of the page maps
C7_PartialPageIgnored ==
    (PagesClassified /\ db_data.size % page_size # 0) =>
        LET last == (db_data.size \div page_size) * page_size
        IN  /\ "not full" \in log
            /\ last \notin DOMAIN all_pages
            /\ last \notin DOMAIN table_defs
            /\ last \notin DOMAIN data_pages

\* the image does not begin 00 01 00 00, or ends before the file header does
HeaderUnreadable ==
    \/ db_data.size < 4 + (Len(JetString) + 1) + 4 + ACCESSHEADER_PADDING
    \/ <<At(db_data, 0), At(db_data, 1), At(db_data, 2), At(db_data, 3)>> # <<0, 1, 0, 0>>

\* AccessParser is constructed on the image, or has been
Constructing == pc # "pure"

\* C8: on an image whose file header does not parse the construction fails
\* with an error before page classification, owner linking and catalog
\* parsing, and no handle with a catalog comes of it
C8_BadHeaderIsFatal ==
    (Constructing /\ HeaderUnreadable) =>
        /\ pc \in {"new", "raised"}
        /\ pc = "raised" => exc = "ValueError"
        /\ all_pages = EmptyMap /\ table_defs = EmptyMap /\ data_pages = EmptyMap
        /\ tables_with_data = EmptyMap
        /\ catalog = EmptyMap
        /\ h = NoHandle

\* the construction failed on an image of full length with a wrong magic
C8_Witness ==
    /\ pc = "raised"
    /\ exc = "ValueError"
    /\ db_data.size >= PAGE_SIZE_V3
    /\ At(db_data, 3) # 0

\* C9: jet_version 0 gives version 3 and page size 0x800; 1, 2, 3 give
\* versions 4, 5, 2010 and page size 0x1000; any other value is logged and
\* gives version 3 and page size 0x800
C9_VersionOfJetVersion ==
    (pc # "new" /\ ~HeaderUnreadable) =>
        LET jet_version == U32(db_data, 4 + Len(JetString) + 1)
            unknown == "unknown version" \in log
        IN  CASE jet_version = 0 -> version = 3 /\ page_size = 2048 /\ ~unknown
              [] jet_version = 1 -> version = 4 /\ page_size = 4096 /\ ~unknown
              [] jet_version = 2 -> version = 5 /\ page_size = 4096 /\ ~unknown
              [] jet_version = 3 -> version = 2010 /\ page_size = 4096 /\ ~unknown
              [] OTHER -> version = 3 /\ page_size = 2048 /\ unknown

\* the header of an image with an unknown jet_version has been parsed
C9_Witness ==
    /\ pc = "header"
    /\ U32(db_data, 4 + Len(JetString) + 1) = 255
    /\ version = 3
    /\ "unknown version" \in log

\* _parse_catalog has returned
CatalogBuilt == pc \in {"catalog", "ready"}

\* the catalog row is retained
Retained(i) ==
    \/ msys_in.Name[i] = "MSysObjects"
    \/ /\ msys_in.Type[i] = 1
       /\ msys_in.Flags[i] \notin {<<-32768, 0>>, <<-1, 65534>>, <<32768, 0>>, <<0, 2>>}

\* the retained rows with the name
RetainedRows(name) == {i \in DOMAIN msys_in.Name : msys_in.Name[i] = name /\ Retained(i)}

\* C10: the catalog holds a name iff a row of that name is MSysObjects or has
\* Type 1 and Flags outside the system set, and maps the name to the Id of
\* that row (of the last such row when several have the name)
C10_CatalogFilter ==
    CatalogBuilt =>
        /\ \A i \in DOMAIN msys_in.Name :
               msys_in.Name[i] \in DOMAIN catalog <=> RetainedRows(msys_in.Name[i]) # {}
        /\ \A name \in DOMAIN catalog :
               /\ RetainedRows(name) # {}
               /\ \E i \in RetainedRows(name) :
                      /\ \A j \in RetainedRows(name) : j <= i
                      /\ catalog[name] = msys_in.Id[i]

\* a catalog that kept MSysObjects in spite of its flags and dropped a row of
\* Type 1 for its flags
C10_Witness ==
    /\ CatalogBuilt
    /\ \E i, j \in DOMAIN msys_in.Name :
           /\ msys_in.Name[i] = "MSysObjects"
           /\ msys_in.Flags[i] = <<-32768, 0>>
           /\ "MSysObjects" \in DOMAIN catalog
           /\ msys_in.Type[j] = 1
           /\ msys_in.Flags[j] = <<0, 2>>
           /\ msys_in.Name[j] \notin DOMAIN catalog

\* the column descriptors of the handle's table, as stored in its TDEF
SchemaColumns == schema_in[h.offset]

\* parse() of the handle's table has returned
Returned == h.state = "ready" /\ tpc = "done"

\* C11: parse() of a table without rows (no page in its usage map, or only
\* deleted slots on its pages) returns one key per schema column, each with
\* an empty sequence
C11_EmptyTable ==
    (Returned /\ \A i \in SlotEntries : IsDeletedSlot(walk[i].raw)) =>
        /\ Len(returned.keys) = Len(SchemaColumns)
        /\ {returned.keys[i] : i \in DOMAIN returned.keys}
               = {SchemaColumns[i].col_name_str : i \in DOMAIN SchemaColumns}
        /\ \A n \in DOMAIN returned.cols : returned.cols[n] = <<>>

\* parse() has returned from a walk over deleted slots only
C11_Witness ==
    /\ Returned
    /\ SlotEntries # {}
    /\ \A i \in SlotEntries : IsDeletedSlot(walk[i].raw)
    /\ Len(returned.keys) = Len(SchemaColumns)

\* the column_index of the schema column of that name
IndexOf(name) ==
    LET i == CHOOSE j \in DOMAIN SchemaColumns : SchemaColumns[j].col_name_str = name
    IN  SchemaColumns[i].column_index

\* C12: the keys of the mapping parse_table returns are in ascending
\* column_index order, for a table with rows and for a table without
C12_KeysInSchemaOrder ==
    Returned =>
        \A i, j \in DOMAIN returned.keys :
            i < j => IndexOf(returned.keys[i]) < IndexOf(returned.keys[j])

\* the value the slot appended to the column
Added(w, name) == Column(w.after, name)[Len(Column(w.after, name))]

\* the slots of a Jet 4 table whose record holds the bytes text in column B
\* and whose columns were all parsed
TextSlots(text) ==
    {i \in SlotEntries :
        /\ h.version > 3
        /\ Bytes(walk[i].record) = TextRecord(4, 5, 7, text, 15)
        /\ walk[i].called /\ walk[i].exc = "none"}

\* C13 as stated: the Jet 4 text value FF FE 48 00 69 00 decodes to "Hi"
C13_BomHiIsHi ==
    \A i \in TextSlots(BomHi) : Added(walk[i], "B") = VStr(<<72, 105>>)

\* C13 amended: the Jet 4 text value FF FE 48 69 decodes to "Hi"; FF FE 48 00
\* 69 00 decodes to "H" and U+FFFD, the lone byte 69 being an uncompressed
\* segment of odd length
C13_PackedHiIsHi ==
    /\ \A i \in TextSlots(PackedHi) : Added(walk[i], "B") = VStr(<<72, 105>>)
    /\ \A i \in TextSlots(BomHi) : Added(walk[i], "B") = VStr(<<72, 65533>>)

\* both text values were decoded
C13_Witness ==
    /\ TextSlots(PackedHi) # {}
    /\ TextSlots(BomHi) # {}

\* numeric_to_string has returned
NumericDone == call.op = "numeric_to_string" /\ call.state # "pending"

\* the decimal digits of the integer the limbs of bytes_num stand for
NumericDigits ==
    LET c == CHOOSE x \in NumericCases :
                 \E neg \in SignBytes : NumericBytes(neg, x.limbs) = call.bytes_num
    IN  [i \in DOMAIN c.digits |-> 48 + c.digits[i]]

\* the digits without their leading zeros
RECURSIVE StripZeros(_)
StripZeros(d) ==
    IF d # <<>> /\ Head(d) = 48 THEN StripZeros(Tail(d)) ELSE d

\* the string reads sign * N * 10^-scale: an optional "-", at least one
\* digit, ".", and scale digits, the digits being those of N
ReadsAs(str, negative, digits, scale) ==
    LET body == IF negative THEN Tail(str) ELSE str
        dot  == Len(body) - scale
    IN  /\ negative => (str # <<>> /\ Head(str) = 45)
        /\ dot >= 2
        /\ body[dot] = 46
        /\ \A i \in DOMAIN body : i # dot => body[i] \in 48..57
        /\ StripZeros(SubSeq(body, 1, dot - 1) \o SubSeq(body, dot + 1, Len(body)))
               = StripZeros(digits)

Preceding(i) ==
    {j \in SlotEntries : walk[j].page = walk[i].page /\ walk[j].slot < walk[i].slot}

\* the bytes of the page the slot is on
PageOf(w) == all_pages[w.page]

\* C15 as stated: the first slot with neither flag on a page yields the bytes
\* from its offset to the end of the page, however many deleted slots
\* precede it
C15_FirstNormalToPageEnd ==
    \A i \in SlotEntries :
        (walk[i].kind = "normal" /\ \A j \in Preceding(i) : IsDeletedSlot(walk[j].raw))
            => walk[i].record = From(PageOf(walk[i]), walk[i].raw)

\* C15 amended: the cursor starts unset on every page; a slot with neither
\* flag yields the bytes from its offset to the end of the page when it is the
\* first slot of its page or the slot before it left the cursor at 0, and
\* the bytes from its offset to the offset of the slot before it otherwise,
\* that slot being deleted or not
C15_BoundedBySlotBefore ==
    \A i \in SlotEntries :
        /\ walk[i].slot = 1 => walk[i - 1].last_offset = -1
        /\ walk[i].kind = "normal" =>
               walk[i].record =
                   IF walk[i].slot = 1 \/ walk[i - 1].raw % 4096 = 0
                   THEN From(PageOf(walk[i]), walk[i].raw)
                   ELSE Slice(PageOf(walk[i]), walk[i].raw, walk[i - 1].raw % 4096)

\* the first slot with neither flag on a page, behind a deleted slot whose
\* offset bounds its record
C15_Witness ==
    \E i \in SlotEntries :
        /\ walk[i].kind = "normal" /\ walk[i].slot > 1
        /\ \A j \in Preceding(i) : IsDeletedSlot(walk[j].raw)
        /\ walk[i].record.size = (walk[i - 1].raw % 4096) - walk[i].raw
        /\ walk[i].record # From(PageOf(walk[i]), walk[i].raw)
        /\ Emitted(walk[i])

\* C16: a deleted slot with value s gives no row and leaves the cursor at
\* s & 0xFFF, and the slot with neither flag right after it yields the bytes
\* from its offset to s & 0xFFF, for every s & 0xFFF, 0 included
C16_DeletedSetsCursor ==
    \A i \in SlotEntries :
        /\ IsDeletedSlot(walk[i].raw) =>
               /\ ~Emitted(walk[i])
               /\ walk[i].last_offset = walk[i].raw % 4096
        /\ (walk[i].kind = "normal" /\ walk[i].slot > 1
            /\ IsDeletedSlot(walk[i - 1].raw)) =>
               walk[i].record = Slice(PageOf(walk[i]), walk[i].raw,
                                      walk[i - 1].raw % 4096)

\* the pointer an overflow slot holds: the 4 little-endian bytes at its
\* offset
PointerOf(w) == U32(PageOf(w), w.raw % 4096)

\* the overflow slots whose 4 pointer bytes lie within the page
OverflowSlots ==
    {i \in SlotEntries :
        /\ IsOverflowSlot(walk[i].raw)
        /\ (walk[i].raw % 4096) + 4 <= PageOf(walk[i]).size}

\* the pointer names a data page and one of its record slots
Designates(p) ==
    /\ (p \div 256) * page_size \in DOMAIN data_pages
    /\ p % 256 < Len(parse_data_page_header(data_pages[(p \div 256) * page_size],
                                            version).record_offsets)

\* an offset of the target page without bit 0x8000
Unflagged(x) == IF x >= 32768 THEN x % 4096 ELSE x

\* the bytes of slot p & 0xFF of data page p >> 8: from the slot's offset to
\* the offset of the slot before it, or to the end of the page for slot 0
PointedRecord(p) ==
    LET page == data_pages[(p \div 256) * page_size]
        offs == parse_data_page_header(page, version).record_offsets
        idx  == p % 256
    IN  IF idx = 0 THEN From(page, Unflagged(offs[1]))
        ELSE Slice(page, Unflagged(offs[idx + 1]), Unflagged(offs[idx]))

\* C17: an overflow slot has its pointer p read from the 4 bytes at its
\* offset, the record of slot p & 0xFF of data page p >> 8 handed to row
\* parsing, and the cursor left at its offset
C17_OverflowResolved ==
    \A i \in OverflowSlots :
        /\ walk[i].last_offset = walk[i].raw % 4096
        /\ Designates(PointerOf(walk[i])) =>
               /\ walk[i].record = PointedRecord(PointerOf(walk[i]))
               /\ walk[i].called <=> walk[i].record.size > 0

\* an overflow slot resolved to slot 1 of another page, whose offset carries
\* bit 0x8000, and its record gave a row
C17_Witness ==
    \E i \in OverflowSlots :
        /\ Designates(PointerOf(walk[i]))
        /\ PointerOf(walk[i]) % 256 = 1
        /\ PointerOf(walk[i]) \div 256 # walk[i].page \div page_size
        /\ walk[i].called /\ Emitted(walk[i])

\* C18: a pointer that names no data page, or a slot index at or above the
\* record count of its page, gives no record and raises nothing
C18_BadPointerGivesNone ==
    \A i \in OverflowSlots :
        ~Designates(PointerOf(walk[i])) =>
            /\ walk[i].exc = "none"
            /\ ~walk[i].called
            /\ walk[i].record.size = 0

\* _parse_memo has read its descriptor
MemoParsed ==
    /\ memo.state \in {"chain", "returned", "raised"}
    /\ memo.relative_obj_data.size >= 12

\* C19: resolving an LVAL type 2 memo follows at most as many next-page
\* links as there are data pages, so a chain whose links form a cycle ends
C19_ChainBounded ==
    memo.state # "none" => memo.links <= Cardinality(DOMAIN data_pages)

\* the long-value kind that the bits 0x80000000 and 0x40000000 of memo_length
\* stand for, the first of them winning
KindOfBits(b) ==
    IF At(b, 3) >= 128 THEN "inline"
    ELSE IF At(b, 3) % 128 >= 64 THEN "lval1"
    ELSE "lval2"

\* the bytes that follow the 12-byte descriptor, memo_length & 0x3FFFFFFF of
\* them or as many as there are
InlineBytes(b) ==
    LET length == At(b, 0) + 256 * At(b, 1) + 65536 * At(b, 2)
                  + 16777216 * (At(b, 3) % 64)
        rest   == SubSeq(Bytes(b), 13, b.size)
    IN  SubSeq(rest, 1, Min(length, Len(rest)))

\* the descriptor with memo_length 0x80000005 followed by 41 42 43 44 45
AbcdeMemo == BufOf(<<5, 0, 0, 128, 0, 0, 0, 0, 0, 0, 0, 0, 65, 66, 67, 68, 69>>)

\* an inline memo has been returned as text
InlineReturned ==
    /\ MemoParsed
    /\ memo.state = "returned"
    /\ memo.kind = "inline"
    /\ ~memo.return_raw

\* C20 as stated: the high bits of memo_length select the kind, inline first;
\* the inline data is the memo_length & 0x3FFFFFFF bytes after the descriptor
\* or those available; the value is the text decoding of those bytes, and
\* memo_length 0x80000005 followed by 41 42 43 44 45 gives "ABCDE"
C20_InlineIsText ==
    /\ MemoParsed => memo.kind = KindOfBits(memo.relative_obj_data)
    /\ InlineReturned =>
           /\ memo.memo_data = InlineBytes(memo.relative_obj_data)
           /\ memo.val = VStr(decodeTextValue(memo.memo_data, h.version))
           /\ memo.relative_obj_data = AbcdeMemo =>
                  memo.val = VStr(<<65, 66, 67, 68, 69>>)

\* C20 amended: the kind and the inline data as stated; the value is nothing
\* when there is no data, and else the text decoding of the data in the
\* encoding of the database version, so that 41 42 43 44 45 gives "ABCDE" in
\* a Jet 3 database and U+4241 U+4443 U+FFFD in a Jet 4 one
C20_InlineIsVersionText ==
    /\ MemoParsed => memo.kind = KindOfBits(memo.relative_obj_data)
    /\ InlineReturned =>
           /\ memo.memo_data = InlineBytes(memo.relative_obj_data)
           /\ memo.val = IF memo.memo_data = <<>> THEN VNone
                         ELSE VStr(decodeTextValue(memo.memo_data, h.version))
           /\ memo.relative_obj_data = AbcdeMemo =>
                  memo.val = IF h.version = 3
                             THEN VStr(<<65, 66, 67, 68, 69>>)
                             ELSE VStr(<<16961, 17475, 65533>>)

\* the inline memo 41 42 43 44 45 has been returned from a Jet 4 database
C20_Witness ==
    /\ InlineReturned
    /\ memo.relative_obj_data = AbcdeMemo
    /\ h.version = 4
    /\ memo.memo_data = <<65, 66, 67, 68, 69>>

(* ---------------------------------------------------------- the usage maps *)
\* the entry of record slot row in the offset table of a data page
SlotEntry(buf, v, row) == U16(buf, (IF v = 3 THEN 10 ELSE 14) + 2 * row)

\* where the usage map in slot row of the page starts and ends
MapStart(buf, v, row) == SlotEntry(buf, v, row) % 8192
MapEnd(buf, v, ps, row) == IF row = 0 THEN ps ELSE SlotEntry(buf, v, row - 1) % 8192

\* the page numbers the bitmap of that usage map has a set bit for: bit b of
\* the byte at 5 + k of the slot stands for page start_page + 8 * k + b
MapPagesOf(buf, v, ps, row) ==
    LET start == MapStart(buf, v, row)
        end   == MapEnd(buf, v, ps, row)
        start_page == U32(buf, start + 1)
        \* the bitmap bytes that are not zero
        ks == {a - start - 5 : a \in {x \in DOMAIN buf.mem : start + 5 <= x /\ x < end}}
    IN  {start_page + 8 * kb[1] + kb[2] :
            kb \in {x \in ks \X (0..7) :
                      (At(buf, start + 5 + x[1]) \div (2 ^ x[2])) % 2 = 1}}

\* the slots of the data pages that hold a whole usage map header
MapSlots ==
    {pr \in {o \div page_size : o \in DOMAIN data_pages} \X (0..1) :
        get_usage_map(data_pages, version, page_size, pr[1], pr[2]).exc = "none"}

\* C21: _get_usage_map returns, ascending and without duplicates, exactly the
\* page numbers start_page + 8 * byteIndex + b of the set bits of the bitmap
\* bytes of the slot (its start the masked offset entry, its end the page
\* size or the masked entry of the slot before), all of them within
\* start_page and start_page plus eight times the number of bitmap bytes;
\* the owned pages of a handle are the offsets of those pages. The data
\* pages are those categorize_pages left and are not written again.
C21_UsageMapPages ==
    /\ pc = "pages" => \A pr \in MapSlots :
          LET buf   == data_pages[pr[1] * page_size]
              pages == get_usage_map(data_pages, version, page_size, pr[1], pr[2]).pages
              start_page == U32(buf, MapStart(buf, version, pr[2]) + 1)
              capacity == (MapEnd(buf, version, page_size, pr[2])
                           - MapStart(buf, version, pr[2]) - 5) * 8
          IN  /\ pages = Ascending(MapPagesOf(buf, version, page_size, pr[2]))
              /\ \A i \in DOMAIN pages :
                    start_page <= pages[i] /\ pages[i] < start_page + capacity
    /\ h.state = "ready" =>
          LET head  == parse_table_head(table_defs[h.offset], version)
              pages == Ascending(MapPagesOf(
                           data_pages[head.row_page_map_page_number * page_size],
                           version, page_size, head.row_page_map_row_number))
          IN  OwnedPages = [i \in DOMAIN pages |-> pages[i] * page_size]

\* a handle of T whose owned pages come from a usage map that starts at page
\* 3 behind a flagged slot entry, and a usage map with a page of its second
\* bitmap byte
C21_Witness ==
    /\ h.state = "ready" /\ h.name = "T"
    /\ OwnedPages = <<4 * page_size, 5 * page_size, 11 * page_size>>
    /\ LET buf == data_pages[Layout.usage * page_size]
       IN  /\ SlotEntry(buf, version, 0) >= 32768
           /\ U32(buf, MapStart(buf, version, 0) + 1) = 3
           /\ At(buf, MapStart(buf, version, 0) + 6) = 1

(* ------------------------------------------------------- the rows' columns *)
\* the slots whose record went through _parse_row past the null-bitmap check
RowEntries == {i \in SlotEntries : walk[i].called /\ walk[i].rows = 1}

\* the field count of a record and the bytes of its null bitmap: the last
\* ceil(field_count / 8) bytes
FieldCountOf(record) ==
    IF version > 3 THEN Signed(U16(record, 0), 16) ELSE Signed(At(record, 0), 8)

BitmapOf(record) ==
    Slice(record, record.size - ((FieldCountOf(record) + 7) \div 8), record.size)

\* bit number id of the bitmap, the bits of each byte counted from the least
\* significant
BitOf(record, id) == (At(BitmapOf(record), id \div 8) \div (2 ^ (id % 8))) % 2 = 1

\* the columns of the handle's table
TableCols == {h.columns[k] : k \in DOMAIN h.columns}

\* C22: a column whose column_id is not a bit index of the row's null bitmap
\* (column_id >= 8 * null_bitmap_len, column_id = 8 * null_bitmap_len
\* included) gets null from the row parser (unknown-null for a boolean), and
\* the row raises no error
C22_BeyondBitmapIsNull ==
    \A i \in RowEntries : \A c \in TableCols :
        c.column_id >= 8 * BitmapOf(walk[i].record).size =>
            /\ walk[i].exc = "none"
            /\ Grew(walk[i], c.col_name_str) = 1
            /\ Added(walk[i], c.col_name_str) = VNone

\* the bytes of the record after its field count
AfterCount(record) == From(record, IF version > 3 THEN 2 ELSE 1)

TrailerOf(record) == From(Reverse(record), (FieldCountOf(record) + 7) \div 8)

\* the trailer as parse_relative_object_metadata_struct reads it from its
\* byte number from
TrailerAt(record, from) ==
    parse_relative_object_metadata_struct(From(TrailerOf(record), from),
                                          (record.size - 1) \div 256, version)

\* the trailer's variable_length_field_count is not the table's
\* variable_columns
Mismatch(record) ==
    /\ TrailerAt(record, 0).ok
    /\ TrailerAt(record, 0).variable_length_field_count # h.variable_columns

\* the first of the first 10 trailer bytes that equals variable_columns, or -1
FoundAt(record) == Find(Slice(TrailerOf(record), 0, 10), h.variable_columns, 0)

\* the row gave no variable-length column a value
NoVariableValues(w) ==
    \A c \in TableCols : ~c.fixed_length => Grew(w, c.col_name_str) = 0

\* the variable-length columns whose null-bitmap bit is set in the record
Present(record) ==
    {c \in TableCols : /\ ~c.fixed_length
                       /\ c.column_id < 8 * BitmapOf(record).size
                       /\ BitOf(record, c.column_id)}

\* the value of the segment of column c that the trailer md bounds, both
\* bounds moved by adj
SegmentValue(record, md, c, adj) ==
    LET offs  == md.variable_length_field_offsets
        n     == c.variable_column_number
        start == offs[n + 1]
        end   == IF n + 1 = Len(offs) THEN md.var_len_count ELSE offs[n + 2]
        data  == Slice(record, start + adj, end + adj)
    IN  IF start = end THEN VStr(<<>>)
        ELSE parse_type(c.type, data, data.size, version).val

\* the first variable column is moved by 0x100 when the jump table of the
\* trailer names it (version 3)
FirstAdjustment(md) ==
    IF version = 3 /\ \E k \in DOMAIN md.variable_length_jump_table :
                          md.variable_length_jump_table[k] = 0
    THEN 256 ELSE 0

\* the row without error gave the first variable column, when present, the
\* value the trailer md bounds, and no variable column a value when md lists
\* no offset
ValuesFrom(w, md) ==
    IF md.variable_length_field_offsets = <<>> THEN NoVariableValues(w)
    ELSE \A c \in Present(w.record) :
            c.variable_column_number = 0 =>
                /\ Grew(w, c.col_name_str) = 1
                /\ Added(w, c.col_name_str)
                     = SegmentValue(w.record, md, c, FirstAdjustment(md))

\* C24 (as stated): in every version the variable-length pass checks the
\* trailer's variable_length_field_count against the table's
\* variable_columns; on a mismatch it re-parses the trailer from the first
\* of its first 10 bytes that equals variable_columns, and when there is no
\* such byte the record gives no variable-length value
C24_TrailerValidated ==
    \A i \in RowEntries :
        (Mismatch(walk[i].record) /\ walk[i].exc = "none") =>
            IF FoundAt(walk[i].record) = -1
            THEN NoVariableValues(walk[i])
            ELSE TrailerAt(walk[i].record, FoundAt(walk[i].record)).ok =>
                    ValuesFrom(walk[i], TrailerAt(walk[i].record,
                                                  FoundAt(walk[i].record)))

\* C24 (amended): that check is made in version 3 only; in version 4 and
\* later the trailer is used as it is read, whatever its
\* variable_length_field_count
C24_TrailerValidatedInJet3 ==
    \A i \in RowEntries :
        (Mismatch(walk[i].record) /\ walk[i].exc = "none") =>
            IF version > 3
            THEN ValuesFrom(walk[i], TrailerAt(walk[i].record, 0))
            ELSE IF FoundAt(walk[i].record) = -1
            THEN NoVariableValues(walk[i])
            ELSE TrailerAt(walk[i].record, FoundAt(walk[i].record)).ok =>
                    ValuesFrom(walk[i], TrailerAt(walk[i].record,
                                                  FoundAt(walk[i].record)))

\* a version 3 record whose trailer lies behind four bytes of junk: the
\* count read first is 0, the byte 1 is found at 4 and B is read as "hi"
C24_Witness ==
    \E i \in RowEntries :
        /\ version = 3
        /\ walk[i].exc = "none"
        /\ Mismatch(walk[i].record)
        /\ TrailerAt(walk[i].record, 0).variable_length_field_count = 0
        /\ FoundAt(walk[i].record) = 4
        /\ Added(walk[i], "B") = VStr(HiText(3))

\* the variable-length columns up to and including c, in column order
UpTo(c) ==
    {d \in TableCols : ~d.fixed_length /\ d.column_index <= c.column_index}

\* the trailer's jump table names the column's variable_column_number
InJumpTable(md, d) ==
    \E k \in DOMAIN md.variable_length_jump_table :
        md.variable_length_jump_table[k] = d.variable_column_number

\* 0x100 for each column of S that the jump table names (version 3)
Adjustment(md, S) ==
    IF version = 3 THEN 256 * Cardinality({d \in S : InJumpTable(md, d)}) ELSE 0

\* the rows read without error whose trailer announces the table's
\* variable_columns
MatchedRows ==
    {i \in RowEntries : /\ walk[i].exc = "none"
                        /\ TrailerAt(walk[i].record, 0).ok
                        /\ ~Mismatch(walk[i].record)}

\* C25: in Jet 3 both bounds of a variable column's segment are moved by
\* 0x100 times the number of variable columns, in column order up to and
\* including that column and the null ones among them counted, whose
\* variable_column_number is in variable_length_jump_table; in Jet 4+ they
\* are not moved
C25_JumpAdjustment ==
    \A i \in MatchedRows : \A c \in Present(walk[i].record) :
        LET md == TrailerAt(walk[i].record, 0)
        IN  /\ Grew(walk[i], c.col_name_str) = 1
            /\ Added(walk[i], c.col_name_str)
                 = SegmentValue(walk[i].record, md, c, Adjustment(md, UpTo(c)))

\* the rows whose variable-length columns were read with the trailer as it
\* stands: it lists an offset, no column_id equals the number of bitmap
\* bits, and in version 3 its count is the table's variable_columns
TrailerRows ==
    {i \in RowEntries :
        /\ TrailerAt(walk[i].record, 0).ok
        /\ TrailerAt(walk[i].record, 0).variable_length_field_offsets # <<>>
        /\ version = 3 => ~Mismatch(walk[i].record)
        /\ \A c \in TableCols : c.column_id # 8 * BitmapOf(walk[i].record).size}

\* C26: a non-null variable-length column with ordinal n =
\* variable_column_number is read from record[offsets[n] : offsets[n+1]], or
\* record[offsets[n] : var_len_count] when n is the last ordinal of the
\* offset list, equal bounds giving the empty string; n is a valid index of
\* the offset list whatever the schema and the trailer, so that no access is
\* out of range
C26_SegmentInRange ==
    \A i \in TrailerRows : \A c \in Present(walk[i].record) :
        LET md == TrailerAt(walk[i].record, 0)
        IN  /\ c.variable_column_number < Len(md.variable_length_field_offsets)
            /\ walk[i].exc # "IndexError"
            /\ Grew(walk[i], c.col_name_str) = 1 =>
                  Added(walk[i], c.col_name_str)
                    = SegmentValue(walk[i].record, md, c,
                                   Adjustment(md, UpTo(c) \cap Present(walk[i].record)))

(* ------------------------------------------------------ the database handle *)
\* what the AccessParser object holds: the image, the three page maps, the
\* catalog, the extra properties and the TableObj of every table, with its
\* linked, owned and free-space page lists
HandleState ==
    <<db_data, table_defs, data_pages, all_pages, catalog, extra_props,
      tables_with_data>>

\* C27: once the AccessParser is constructed, get_table(name),
\* parse_table(name) and the steps of parse() leave what it holds as it is:
\* the image, the page maps, the catalog, the extra properties and every
\* TableObj, its owned_pages and free_space_pages included
C27_HandleUnchanged == [][pc = "ready" => UNCHANGED HandleState]_vars

(* ------------------------------------------------------------- idempotence *)
\* a parse() returns in this step
ParseReturns == tpc # "done" /\ tpc' = "done"

\* C28: a parse() that returns after an earlier parse() of the same table
\* has returned - on the same handle, or on the handle of a later
\* parse_table of the same name - returns a mapping equal to the one
\* returned before: the same columns, as many rows, the same values
C28_ParseIdempotent ==
    [][(ParseReturns /\ returned # NoReturn) => returned' = returned]_vars

====
